---- MODULE Spec2Model ----
(***************************************************************************)
(* Patrol check-in: the database authorization model (user_roles, its row  *)
(* policies, the role audit trigger, admin_change_user_role, the default   *)
(* role triggers on auth.users, the security_rounds row policies) and the  *)
(* guard's capture form (SecureRounds.tsx).                                *)
(*                                                                         *)
(* The schema modelled is the one left by all migrations: the policies,    *)
(* functions and triggers that a later migration dropped or replaced are   *)
(* not part of it.                                                         *)
(***************************************************************************)
EXTENDS Integers, Sequences, FiniteSets, Bags, TLC

VARIABLES
    auth_users,       \* auth.users: the identities that exist
    user_roles,       \* public.user_roles: a bag of rows
    role_audit_log,   \* public.role_audit_log: rows in insertion order
    security_rounds,  \* public.security_rounds: a bag of rows
    last,             \* the outcome of the last store request
    selected,         \* the rows the last SELECT on security_rounds returned
    formData,         \* SecureRounds: formData state
    currentCorner,    \* SecureRounds: currentCorner state
    photoData,        \* SecureRounds: photoData state
    showQRScanner,    \* SecureRounds: showQRScanner state
    showCamera,       \* SecureRounds: showCamera state
    toast,            \* the last notice shown
    pending,          \* SecureRounds: the handleSubmit calls awaiting a reply
    done,             \* the outcome of the last handleSubmit call that ended
    now,              \* the server's clock, in days
    server_log,       \* the last lines of the server log
    scanned,          \* history: per corner, the last payload accepted for it
    blob,             \* CameraCapture: the toBlob callback that is queued
    txns,             \* admin_change_user_role calls that have begun
    limiter,          \* the rate limiter that is exercised
    attempts,         \* that limiter's attempts map
    clock,            \* Date.now(), in milliseconds
    returned,         \* what the last call of the limiter returned
    windows           \* history: per identifier, its window and allowed calls

dbVars == <<auth_users, user_roles, role_audit_log, security_rounds, last, selected>>
uiVars == <<formData, currentCorner, photoData, showQRScanner, showCamera, toast,
            pending, done>>
sweepVars == <<now, server_log>>
scanVars == <<scanned>>
cameraVars == <<blob>>
txnVars == <<txns>>
limiterVars == <<limiter, attempts, clock, returned, windows>>
extVars == <<now, server_log, scanned, blob, txns, limiter, attempts, clock, returned,
            windows>>
vars == <<auth_users, user_roles, role_audit_log, security_rounds, last, selected,
          formData, currentCorner, photoData, showQRScanner, showCamera, toast,
          pending, done, now, server_log, scanned, blob, txns, limiter, attempts,
          clock, returned, windows>>

----------------------------------------------------------------------------
(* Values *)

\* SQL NULL, and auth.uid() of a request that carries no identity.
NULL == "NULL"

\* The user_role enum.
user_role == {"security_guard", "manager", "admin"}

\* Identities: the three seeded by the migrations and those that may sign up.
SeedAdmin1 == "5af0"
SeedAdmin2 == "39a3"
SeedManager == "f464"
NewUsers == {"n1"}
Users == {SeedAdmin1, SeedAdmin2, SeedManager} \cup NewUsers

Locations == {"Site A", "Site B"}

\* location_access TEXT[]: NULL, or a list of locations.
NullAccess == [null |-> TRUE, list |-> {}]
Access(S) == [null |-> FALSE, list |-> S]

\* The most audit rows a run appends.
MaxAudit == 1

RoleRow(u, r, la) == [user_id |-> u, role |-> r, location_access |-> la]

One(r) == SetToBag({r})

\* Rows of bag b whose user_id is u.
RowsOf(b, u) == {r \in BagToSet(b) : r.user_id = u}

\* Number of rows of bag b whose user_id is u.
CountOf(b, u) ==
    LET S == RowsOf(b, u)
        sum[T \in SUBSET S] ==
            IF T = {} THEN 0
            ELSE LET x == CHOOSE y \in T : TRUE
                 IN  CopiesIn(x, b) + sum[T \ {x}]
    IN  sum[S]

----------------------------------------------------------------------------
(* Functions of the schema *)

\* get_user_role(user_uuid): the role of the first row found, or NULL.
get_user_role(roles, user_uuid) ==
    IF RowsOf(roles, user_uuid) = {} THEN NULL
    ELSE (CHOOSE r \in RowsOf(roles, user_uuid) : TRUE).role

is_admin_anyRole(roles, user_uuid) ==
    \E r \in BagToSet(roles) : r.user_id = user_uuid

\* is_admin(user_uuid): EXISTS a row of that user with role admin.
is_admin(roles, user_uuid) ==
    \E r \in BagToSet(roles) : r.user_id = user_uuid /\ r.role = "admin"

----------------------------------------------------------------------------
(* Row policies of user_roles and role_audit_log.  All are permissive and  *)
(* TO authenticated: a request with no identity passes none.  A comparison *)
(* with NULL is not true.                                                  *)

\* USING and WITH CHECK of "Admins can manage other users roles" (FOR ALL).
AdminsCanManageOtherUsersRoles(roles, uid, row) ==
    is_admin(roles, uid) /\ row.user_id # NULL /\ uid # NULL /\ row.user_id # uid

\* USING of "Users can view own role" and "Users can view own role only"
\* (FOR SELECT).
UsersCanViewOwnRole(uid, row) == uid # NULL /\ uid = row.user_id

\* May the request of uid see (SELECT) or touch (UPDATE, DELETE) this row.
RolesUsing(roles, cmd, uid, row) ==
    /\ uid # NULL
    /\ \/ AdminsCanManageOtherUsersRoles(roles, uid, row)
       \/ cmd = "SELECT" /\ UsersCanViewOwnRole(uid, row)

\* May the request of uid write this new row (INSERT, UPDATE).
RolesWithCheck(roles, uid, row) ==
    uid # NULL /\ AdminsCanManageOtherUsersRoles(roles, uid, row)

AuditUsing_AdminAll(roles, cmd, uid, row) == uid # NULL /\ is_admin(roles, uid)

\* role_audit_log has one policy, "Admins can view audit logs" (FOR SELECT).
AuditUsing(roles, cmd, uid, row) ==
    uid # NULL /\ cmd = "SELECT" /\ is_admin(roles, uid)

\* No policy of role_audit_log is FOR INSERT, UPDATE or ALL.
AuditWithCheck(roles, uid, row) == FALSE

----------------------------------------------------------------------------
(* Tables: constraints and triggers.  A statement's result is              *)
(* [err, roles, audit]; err = TRUE is a raised exception.                  *)

Raised(roles, audit) == [err |-> TRUE, roles |-> roles, audit |-> audit]
Done(roles, audit) == [err |-> FALSE, roles |-> roles, audit |-> audit]

\* INSERT INTO role_audit_log: performed_by, target_user, new_role and action
\* are NOT NULL.
role_audit_log_insert(audit, e) ==
    IF e.performed_by = NULL \/ e.target_user = NULL
       \/ e.new_role = NULL \/ e.action = NULL
    THEN [err |-> TRUE, audit |-> audit]
    ELSE [err |-> FALSE, audit |-> Append(audit, e)]

audit_role_changes_actorIsTarget(TG_OP, old, new, uid, audit) ==
    role_audit_log_insert(audit,
        [performed_by |-> IF TG_OP = "DELETE" THEN old.user_id ELSE new.user_id,
         target_user |-> IF TG_OP = "DELETE" THEN old.user_id ELSE new.user_id,
         old_role |-> IF TG_OP = "INSERT" THEN NULL ELSE old.role,
         new_role |-> IF TG_OP = "DELETE" THEN NULL ELSE new.role,
         action |-> TG_OP])

\* audit_role_changes(): the row trigger audit_user_roles_changes, AFTER
\* INSERT OR UPDATE OR DELETE ON user_roles.  OLD is NULL for an INSERT and
\* NEW is NULL for a DELETE.
audit_role_changes(TG_OP, old, new, uid, audit) ==
    CASE TG_OP = "INSERT" ->
            role_audit_log_insert(audit,
                [performed_by |-> uid, target_user |-> new.user_id,
                 old_role |-> NULL, new_role |-> new.role, action |-> "INSERT"])
      [] TG_OP = "UPDATE" ->
            role_audit_log_insert(audit,
                [performed_by |-> uid, target_user |-> new.user_id,
                 old_role |-> old.role, new_role |-> new.role, action |-> "UPDATE"])
      [] TG_OP = "DELETE" ->
            role_audit_log_insert(audit,
                [performed_by |-> uid, target_user |-> old.user_id,
                 old_role |-> old.role, new_role |-> NULL, action |-> "DELETE"])

user_roles_user_id_unique_dropped(roles, u) == TRUE

\* CONSTRAINT user_roles_user_id_unique UNIQUE (user_id): may a row for u be
\* added to roles.
user_roles_user_id_unique(roles, u) == RowsOf(roles, u) = {}

\* One row inserted into user_roles (row policies already passed).
user_roles_insert(roles, audit, uid, new) ==
    IF new.user_id = NULL \/ new.role = NULL THEN Raised(roles, audit)
    ELSE IF ~user_roles_user_id_unique(roles, new.user_id) THEN Raised(roles, audit)
    ELSE LET a == audit_role_changes("INSERT", NULL, new, uid, audit)
         IN  IF a.err THEN Raised(roles, audit)
             ELSE Done(roles (+) One(new), a.audit)

\* One copy of row old of user_roles updated to new.
user_roles_update(roles, audit, uid, old, new) ==
    LET rest == roles (-) One(old)
    IN  IF new.user_id = NULL \/ new.role = NULL THEN Raised(roles, audit)
        ELSE IF new.user_id # old.user_id
                /\ ~user_roles_user_id_unique(rest, new.user_id)
        THEN Raised(roles, audit)
        ELSE LET a == audit_role_changes("UPDATE", old, new, uid, audit)
             IN  IF a.err THEN Raised(roles, audit)
                 ELSE Done(rest (+) One(new), a.audit)

\* One copy of row old of user_roles deleted.
user_roles_delete(roles, audit, uid, old) ==
    LET a == audit_role_changes("DELETE", old, NULL, uid, audit)
    IN  IF a.err THEN Raised(roles, audit)
        ELSE Done(roles (-) One(old), a.audit)

\* The bag of rows as a sequence, one element per copy.
RECURSIVE Copies(_, _)
Copies(r, n) == IF n = 0 THEN <<>> ELSE <<r>> \o Copies(r, n - 1)

RECURSIVE RowSeq(_, _)
RowSeq(b, S) ==
    IF S = {} THEN <<>>
    ELSE LET r == CHOOSE x \in S : TRUE
         IN  Copies(r, CopiesIn(r, b)) \o RowSeq(b, S \ {r})

\* SET col = val of an UPDATE statement.
ApplyPatch(r, p) == [r EXCEPT ![p.col] = p.val]

\* UPDATE user_roles SET ... over the rows in todo, one after the other.  With
\* check(new) the row policies' WITH CHECK of the new row.  The statement is
\* atomic: the first exception undoes it all.
RECURSIVE UpdateEach(_, _, _, _, _, _, _, _)
UpdateEach(roles0, audit0, roles, audit, uid, todo, p, checked) ==
    IF todo = <<>> THEN Done(roles, audit)
    ELSE LET new == ApplyPatch(Head(todo), p)
             s == user_roles_update(roles, audit, uid, Head(todo), new)
         IN  IF (checked /\ ~RolesWithCheck(roles0, uid, new)) \/ s.err
             THEN Raised(roles0, audit0)
             ELSE UpdateEach(roles0, audit0, s.roles, s.audit, uid, Tail(todo), p, checked)

RECURSIVE DeleteEach(_, _, _, _, _, _)
DeleteEach(roles0, audit0, roles, audit, uid, todo) ==
    IF todo = <<>> THEN Done(roles, audit)
    ELSE LET s == user_roles_delete(roles, audit, uid, Head(todo))
         IN  IF s.err THEN Raised(roles0, audit0)
             ELSE DeleteEach(roles0, audit0, s.roles, s.audit, uid, Tail(todo))

----------------------------------------------------------------------------
(* Functions and triggers on auth.users *)

\* The role assign_default_role() gives.
DefaultRole == "manager"

assign_default_role_raising(roles, audit, uid, id) ==
    IF RowsOf(roles, id) = {}
    THEN LET s == user_roles_insert(roles, audit, uid,
                                    RoleRow(id, DefaultRole, NullAccess))
         IN  IF s.err
             THEN [roles |-> roles, audit |-> audit, logged |-> FALSE, err |-> TRUE]
             ELSE [roles |-> s.roles, audit |-> s.audit, logged |-> FALSE,
                   err |-> FALSE]
    ELSE [roles |-> roles, audit |-> audit, logged |-> FALSE, err |-> FALSE]

\* assign_default_role(): the trigger function.  An exception of the INSERT
\* (raised by a constraint or by the audit trigger) undoes the INSERT, is
\* logged and swallowed: the function raises nothing (err).
assign_default_role(roles, audit, uid, id) ==
    IF RowsOf(roles, id) = {}
    THEN LET s == user_roles_insert(roles, audit, uid,
                                    RoleRow(id, DefaultRole, NullAccess))
         IN  IF s.err
             THEN [roles |-> roles, audit |-> audit, logged |-> TRUE, err |-> FALSE]
             ELSE [roles |-> s.roles, audit |-> s.audit, logged |-> FALSE,
                   err |-> FALSE]
    ELSE [roles |-> roles, audit |-> audit, logged |-> FALSE, err |-> FALSE]

\* The AFTER INSERT triggers of auth.users, on_auth_user_created and
\* on_auth_user_created_assign_role, run one after the other for the new row
\* id; an exception leaving the first ends the statement.  lines is the
\* number of lines they wrote to the server log.
AfterInsertTriggers(roles, audit, uid, id) ==
    LET t1 == assign_default_role(roles, audit, uid, id)
        t2 == assign_default_role(t1.roles, t1.audit, uid, id)
        n1 == IF t1.logged THEN 1 ELSE 0
        n2 == IF t2.logged THEN 1 ELSE 0
    IN  IF t1.err THEN [roles |-> roles, audit |-> audit, err |-> TRUE, lines |-> n1]
        ELSE IF t2.err
        THEN [roles |-> roles, audit |-> audit, err |-> TRUE, lines |-> n1 + n2]
        ELSE [roles |-> t2.roles, audit |-> t2.audit, err |-> FALSE,
              lines |-> n1 + n2]

admin_change_user_role_noSelfGuard(roles, audit, uid, target_user_id, new_role) ==
    IF ~is_admin(roles, uid)
    THEN [ret |-> FALSE, roles |-> roles, audit |-> audit, rows |-> 0]
    ELSE LET todo == RowSeq(roles, RowsOf(roles, target_user_id))
             s == UpdateEach(roles, audit, roles, audit, uid, todo,
                             [col |-> "role", val |-> new_role], FALSE)
         IN  [ret |-> ~s.err, roles |-> s.roles, audit |-> s.audit,
              rows |-> IF s.err THEN 0 ELSE Len(todo)]

\* admin_change_user_role(target_user_id, new_role), SECURITY DEFINER: its
\* UPDATE passes no row policy.  Every exception is caught: RETURN FALSE.
admin_change_user_role(roles, audit, uid, target_user_id, new_role) ==
    IF ~is_admin(roles, uid)
    THEN [ret |-> FALSE, roles |-> roles, audit |-> audit, rows |-> 0]
    ELSE IF uid # NULL /\ target_user_id = uid
    THEN [ret |-> FALSE, roles |-> roles, audit |-> audit, rows |-> 0]
    ELSE LET todo == RowSeq(roles, RowsOf(roles, target_user_id))
             s == UpdateEach(roles, audit, roles, audit, uid, todo,
                             [col |-> "role", val |-> new_role], FALSE)
         IN  [ret |-> ~s.err, roles |-> s.roles, audit |-> s.audit,
              rows |-> IF s.err THEN 0 ELSE Len(todo)]

----------------------------------------------------------------------------
(* Requests to the store *)

\* A request's identity: an existing identity, or none.
Callers == auth_users \cup {NULL}

\* The role a request is made with: "anon" with no identity, NULL for an
\* identity with no role row.
CallerRole(uid) == IF uid = NULL THEN "anon" ELSE get_user_role(user_roles, uid)

\* What is kept of a request: its kind, the role it was made with, whether
\* it named its own identity's rows, the number of rows its filter matched
\* before any policy, whether it ended without an error (for the rpc: what
\* it returned), and the number of rows it wrote.
Outcome(op, uid, target, matched, ok, rows) ==
    [op |-> op, caller |-> CallerRole(uid), self |-> (uid # NULL /\ uid = target),
     matched |-> matched, ok |-> ok, rows |-> rows]

\* INSERT INTO auth.users: a new identity id, made by a request whose
\* auth.uid() is uid.  The AFTER INSERT triggers on_auth_user_created and
\* on_auth_user_created_assign_role both run assign_default_role(); an
\* exception leaving a trigger undoes the whole INSERT and is the request's
\* error.
CreateIdentitySteps(uid, id) ==
    /\ id \notin auth_users
    /\ LET t == AfterInsertTriggers(user_roles, role_audit_log, uid, id)
       IN  /\ user_roles' = t.roles
           /\ role_audit_log' = t.audit
           /\ Len(t.audit) <= MaxAudit
           /\ auth_users' = IF t.err THEN auth_users ELSE auth_users \cup {id}
           /\ last' = Outcome("signup", uid, id, 0, ~t.err,
                              CountOf(t.roles, id) - CountOf(user_roles, id))
    /\ UNCHANGED <<security_rounds, selected, uiVars>>

CreateIdentity(uid, id) ==
    /\ CreateIdentitySteps(uid, id)
    /\ UNCHANGED extVars

\* rpc('admin_change_user_role', {target_user_id, new_role}).
AdminChangeUserRole(uid, target_user_id, new_role) ==
    /\ LET s == admin_change_user_role(user_roles, role_audit_log, uid,
                                       target_user_id, new_role)
       IN  /\ user_roles' = s.roles
           /\ role_audit_log' = s.audit
           /\ Len(s.audit) <= MaxAudit
           /\ last' = Outcome("rpc", uid, target_user_id,
                              CountOf(user_roles, target_user_id), s.ret, s.rows)
    /\ UNCHANGED <<auth_users, security_rounds, selected, uiVars>>
    /\ UNCHANGED extVars

\* from('user_roles').update(patch).eq('user_id', userId): AdminManagement's
\* updateUserRole and createUser, and any direct request.  Only the rows the
\* UPDATE and SELECT policies pass are touched; the others are skipped
\* without an error.
UpdateUserRoles(uid, userId, p) ==
    /\ LET hit == {r \in RowsOf(user_roles, userId) :
                      /\ RolesUsing(user_roles, "UPDATE", uid, r)
                      /\ RolesUsing(user_roles, "SELECT", uid, r)}
           todo == RowSeq(user_roles, hit)
           s == UpdateEach(user_roles, role_audit_log, user_roles, role_audit_log,
                           uid, todo, p, TRUE)
       IN  /\ user_roles' = s.roles
           /\ role_audit_log' = s.audit
           /\ Len(s.audit) <= MaxAudit
           /\ last' = Outcome("update", uid, userId, CountOf(user_roles, userId), ~s.err,
                              IF s.err THEN 0 ELSE Len(todo))
    /\ UNCHANGED <<auth_users, security_rounds, selected, uiVars>>
    /\ UNCHANGED extVars

\* from('user_roles').insert({user_id, role}).
InsertUserRole(uid, userId, role) ==
    /\ LET new == RoleRow(userId, role, NullAccess)
           s == IF RolesWithCheck(user_roles, uid, new)
                THEN user_roles_insert(user_roles, role_audit_log, uid, new)
                ELSE Raised(user_roles, role_audit_log)
       IN  /\ user_roles' = s.roles
           /\ role_audit_log' = s.audit
           /\ Len(s.audit) <= MaxAudit
           /\ last' = Outcome("insert", uid, userId, CountOf(user_roles, userId), ~s.err,
                              IF s.err THEN 0 ELSE 1)
    /\ UNCHANGED <<auth_users, security_rounds, selected, uiVars>>
    /\ UNCHANGED extVars

\* from('user_roles').delete().eq('user_id', userId).
DeleteUserRoles(uid, userId) ==
    /\ LET hit == {r \in RowsOf(user_roles, userId) :
                      /\ RolesUsing(user_roles, "DELETE", uid, r)
                      /\ RolesUsing(user_roles, "SELECT", uid, r)}
           todo == RowSeq(user_roles, hit)
           s == DeleteEach(user_roles, role_audit_log, user_roles, role_audit_log,
                           uid, todo)
       IN  /\ user_roles' = s.roles
           /\ role_audit_log' = s.audit
           /\ Len(s.audit) <= MaxAudit
           /\ last' = Outcome("delete", uid, userId, CountOf(user_roles, userId), ~s.err,
                              IF s.err THEN 0 ELSE Len(todo))
    /\ UNCHANGED <<auth_users, security_rounds, selected, uiVars>>
    /\ UNCHANGED extVars

\* from('role_audit_log').update(patch).eq('target_user', userId).
UpdateAuditLog(uid, userId, p) ==
    /\ LET hit == {i \in DOMAIN role_audit_log :
                      /\ role_audit_log[i].target_user = userId
                      /\ AuditUsing(user_roles, "UPDATE", uid, role_audit_log[i])
                      /\ AuditUsing(user_roles, "SELECT", uid, role_audit_log[i])}
           bad == \E i \in hit :
                      ~AuditWithCheck(user_roles, uid, ApplyPatch(role_audit_log[i], p))
       IN  /\ role_audit_log' =
                  IF bad THEN role_audit_log
                  ELSE [i \in DOMAIN role_audit_log |->
                           IF i \in hit THEN ApplyPatch(role_audit_log[i], p)
                           ELSE role_audit_log[i]]
           /\ last' = Outcome("audit_update", uid, userId,
                              Cardinality({i \in DOMAIN role_audit_log :
                                  role_audit_log[i].target_user = userId}),
                              ~bad,
                              IF bad THEN 0 ELSE Cardinality(hit))
    /\ UNCHANGED <<auth_users, user_roles, security_rounds, selected, uiVars>>
    /\ UNCHANGED extVars

\* The rows of log that are not in the index set hit, in order.
RECURSIVE Without(_, _)
Without(log, hit) ==
    IF log = <<>> THEN <<>>
    ELSE LET n == Len(log)
             front == Without(SubSeq(log, 1, n - 1), hit)
         IN  IF n \in hit THEN front ELSE Append(front, log[n])

\* from('role_audit_log').delete().eq('target_user', userId).
DeleteAuditLog(uid, userId) ==
    /\ LET hit == {i \in DOMAIN role_audit_log :
                      /\ role_audit_log[i].target_user = userId
                      /\ AuditUsing(user_roles, "DELETE", uid, role_audit_log[i])
                      /\ AuditUsing(user_roles, "SELECT", uid, role_audit_log[i])}
       IN  /\ role_audit_log' = Without(role_audit_log, hit)
           /\ last' = Outcome("audit_delete", uid, userId,
                              Cardinality({i \in DOMAIN role_audit_log :
                                  role_audit_log[i].target_user = userId}),
                              TRUE,
                              Cardinality(hit))
    /\ UNCHANGED <<auth_users, user_roles, security_rounds, selected, uiVars>>
    /\ UNCHANGED extVars

\* from('role_audit_log').insert({performed_by, target_user, new_role, action}).
InsertAuditLog(uid, userId, role) ==
    /\ LET e == [performed_by |-> uid, target_user |-> userId, old_role |-> NULL,
                 new_role |-> role, action |-> "INSERT"]
           s == IF AuditWithCheck(user_roles, uid, e)
                THEN role_audit_log_insert(role_audit_log, e)
                ELSE [err |-> TRUE, audit |-> role_audit_log]
       IN  /\ role_audit_log' = s.audit
           /\ last' = Outcome("audit_insert", uid, userId, 0, ~s.err,
                              IF s.err THEN 0 ELSE 1)
    /\ UNCHANGED <<auth_users, user_roles, security_rounds, selected, uiVars>>
    /\ UNCHANGED extVars

----------------------------------------------------------------------------
(* Initial states and the role tables under every request *)

\* The capture form as SecureRounds mounts it.  Text is a sequence of
\* characters; photo and gpsLocation are what handlePhotoCapture stores.
NoCoordinates == [present |-> FALSE, lat |-> 0, lng |-> 0]
NoFile == [present |-> FALSE, size |-> 0]
NoPhoto == [present |-> FALSE, file |-> NoFile, coordinates |-> NoCoordinates]
NoToast == [title |-> "", corner |-> 0, description |-> <<>>]

\* No handleSubmit call has ended yet.
NoOutcome == [result |-> "none", calls |-> <<>>]

InitForm ==
    [state |-> <<>>, siteCode |-> <<>>, siteName |-> <<>>, guardName |-> <<>>,
     employeeCode |-> <<>>, timestamp |-> <<>>, photo |-> NoFile,
     gpsLocation |-> [text |-> "", lat |-> 0, lng |-> 0],
     qrCodeCorner1 |-> <<>>, qrCodeCorner2 |-> <<>>,
     qrCodeCorner3 |-> <<>>, qrCodeCorner4 |-> <<>>]

\* The clock, the log and the history at the start.
NoScan == [present |-> FALSE, data |-> <<>>]
NoBlob == [present |-> FALSE, data |-> [file |-> NoFile, coordinates |-> NoCoordinates]]

InitExt ==
    /\ now = 0
    /\ server_log = <<>>
    /\ scanned = [corner \in 1..4 |-> NoScan]
    /\ blob = NoBlob
    /\ txns = <<>>
    /\ limiter = NULL
    /\ attempts = <<>>
    /\ clock = 0
    /\ returned = <<>>
    /\ windows = <<>>

InitUi ==
    /\ formData = InitForm
    /\ currentCorner = 1
    /\ photoData = NoPhoto
    /\ showQRScanner = FALSE
    /\ showCamera = FALSE
    /\ toast = NoToast
    /\ pending = EmptyBag
    /\ done = NoOutcome

NoSelect == [uid |-> NULL, rows |-> {}]

\* The rows the migrations seed: two admins and a manager, inserted with the
\* audit trigger dropped.
SeedRoles ==
    SetToBag({RoleRow(SeedAdmin1, "admin", NullAccess),
              RoleRow(SeedAdmin2, "admin", NullAccess),
              RoleRow(SeedManager, "manager", NullAccess)})

InitAuth ==
    /\ auth_users = {SeedAdmin1, SeedAdmin2, SeedManager}
    /\ user_roles = SeedRoles
    /\ role_audit_log = <<>>
    /\ security_rounds = EmptyBag
    /\ selected = NoSelect
    /\ last = [op |-> "none", caller |-> "anon", self |-> FALSE, matched |-> 0,
               ok |-> TRUE, rows |-> 0]
    /\ InitUi
    /\ InitExt

\* The SET clauses requests make on user_roles: a role, as AdminManagement
\* does, or another owner for the row.
RolePatches ==
    {[col |-> "role", val |-> r] : r \in user_role}
    \cup {[col |-> "user_id", val |-> u] : u \in NewUsers}

\* The SET clauses requests make on role_audit_log.
AuditPatches ==
    {[col |-> "new_role", val |-> r] : r \in user_role}
    \cup {[col |-> "performed_by", val |-> u] : u \in {SeedAdmin1} \cup NewUsers}

NextAuth ==
    \/ \E uid \in Callers, id \in Users : CreateIdentity(uid, id)
    \/ \E uid \in Callers, t \in Users, r \in user_role : AdminChangeUserRole(uid, t, r)
    \/ \E uid \in Callers, t \in Users, p \in RolePatches : UpdateUserRoles(uid, t, p)
    \/ \E uid \in Callers, t \in Users, r \in user_role : InsertUserRole(uid, t, r)
    \/ \E uid \in Callers, t \in Users : DeleteUserRoles(uid, t)

SpecAuth == InitAuth /\ [][NextAuth]_vars

\* The audit log under every request made on it, filled by role changes.
NextAudit ==
    \/ \E uid \in Callers, t \in Users, r \in user_role : AdminChangeUserRole(uid, t, r)
    \/ \E uid \in Callers, t \in Users, r \in user_role : InsertUserRole(uid, t, r)
    \/ \E uid \in Callers, t \in Users, p \in AuditPatches : UpdateAuditLog(uid, t, p)
    \/ \E uid \in Callers, t \in Users : DeleteAuditLog(uid, t)
    \/ \E uid \in Callers, t \in Users, r \in user_role : InsertAuditLog(uid, t, r)

SpecAudit == InitAuth /\ [][NextAudit]_vars

----------------------------------------------------------------------------
(* Role assignments: claims C1 to C5, C8, C9 *)

RoleRequests == {"rpc", "update", "insert", "delete"}

\* C1: no request an admin makes on its own role assignment changes it:
\* admin_change_user_role(A, r) by admin A returns FALSE, an insert naming
\* A's own user_id is refused, an update or a delete filtered to A's own
\* user_id writes no row, and user_roles stays as it was.
C1_SelfEscalationGuard ==
    [][(last'.op \in RoleRequests /\ last'.caller = "admin" /\ last'.self) =>
           /\ user_roles' = user_roles
           /\ last'.rows = 0
           /\ last'.op \in {"rpc", "insert"} => last'.ok = FALSE]_vars

\* An admin has called admin_change_user_role on itself and got FALSE.
C1_Witness ==
    /\ last.op = "rpc" /\ last.caller = "admin" /\ last.self
    /\ last.matched = 1 /\ ~last.ok /\ last.rows = 0

\* C2: no request of an identity that is not an admin (a security_guard, a
\* manager, an identity with no role row) changes user_roles:
\* admin_change_user_role returns FALSE for every target and role, an insert
\* is refused, an update or a delete writes no row.
C2_NonAdminCannotChangeRoles ==
    [][(last'.op \in RoleRequests
        /\ last'.caller \in {"security_guard", "manager", NULL}) =>
           /\ user_roles' = user_roles
           /\ last'.rows = 0
           /\ last'.op \in {"rpc", "insert"} => last'.ok = FALSE]_vars

\* A security_guard has called admin_change_user_role on another identity's
\* existing row and got FALSE.
C2_Witness ==
    /\ last.op = "rpc" /\ last.caller = "security_guard" /\ ~last.self
    /\ last.matched = 1 /\ ~last.ok /\ last.rows = 0

\* C3 as stated: admin_change_user_role(B, newRole) by an admin A, B another
\* identity, returns TRUE and leaves B with the role newRole.
C3_AdminChangesOtherRole ==
    [][\A A \in auth_users, B \in auth_users, newRole \in user_role :
         (is_admin(user_roles, A) /\ B # A
          /\ AdminChangeUserRole(A, B, newRole)) =>
             /\ last'.ok = TRUE
             /\ get_user_role(user_roles', B) = newRole]_vars

\* The audit row a committed write of a user_roles row is to leave: the
\* request's identity, the row's identity, the row's role before and after.
AuditEntry(uid, rowUser, before, after, action) ==
    [performed_by |-> uid, target_user |-> rowUser, old_role |-> before,
     new_role |-> after, action |-> action]

C5_AuditLogAppendOnly ==
    [][/\ Len(role_audit_log') >= Len(role_audit_log)
       /\ \A i \in DOMAIN role_audit_log :
              role_audit_log'[i] = role_audit_log[i]]_vars

\* An admin has asked to delete audit rows that exist, and none was deleted.
C5_Witness ==
    /\ last.op = "audit_delete" /\ last.caller = "admin"
    /\ last.matched >= 1 /\ last.rows = 0
    /\ Len(role_audit_log) >= 1

\* C8 as stated: a new identity with no role row has, once created, a role
\* row whose role is security_guard.
C8_DefaultRoleSecurityGuard ==
    [][\A uid \in Callers, id \in Users :
         (CreateIdentity(uid, id) /\ RowsOf(user_roles, id) = {}) =>
             /\ CountOf(user_roles', id) = 1
             /\ get_user_role(user_roles', id) = "security_guard"]_vars

\* C9: an identity never has more than one role row, and every row's role
\* is a value of user_role.
C9_OneRolePerIdentity ==
    /\ \A u \in Users : CountOf(user_roles, u) <= 1
    /\ \A r \in BagToSet(user_roles) : r.role \in user_role

\* An admin's insert of a second row for an identity that has one was
\* refused.
C9_Witness ==
    /\ last.op = "insert" /\ last.caller = "admin" /\ ~last.self
    /\ last.matched = 1 /\ ~last.ok
    /\ \E u \in Users : CountOf(user_roles, u) = 1

----------------------------------------------------------------------------
(* security_rounds: its row policies and the requests on it.  The policies *)
(* name no role: they hold for a request with no identity too.             *)

\* The most rows of security_rounds.
MaxRounds == 2

\* A row of security_rounds: its owner and location; by is not a column, it
\* records the identity of the request that inserted the row.
RoundRow(u, l, by) == [user_id |-> u, location |-> l, by |-> by]

\* WITH CHECK of "Users can create own rounds" (FOR INSERT).
UsersCanCreateOwnRounds(uid, row) ==
    uid # NULL /\ row.user_id # NULL /\ uid = row.user_id

\* USING of "Users can update own rounds" (FOR UPDATE) and of "Users can
\* delete own rounds" (FOR DELETE).
UsersCanChangeOwnRounds(uid, row) ==
    uid # NULL /\ row.user_id # NULL /\ uid = row.user_id

UsersCanViewAccessibleRounds_anyLocation(roles, uid, row) ==
    \/ uid # NULL /\ row.user_id # NULL /\ uid = row.user_id
    \/ \E r \in BagToSet(roles) :
          /\ RolesUsing(roles, "SELECT", uid, r)
          /\ uid # NULL /\ r.user_id = uid
          /\ r.role \in {"manager", "admin"}

\* USING of "Users can view accessible rounds" (FOR SELECT).  Its subquery
\* on user_roles sees the rows the requester may select.
UsersCanViewAccessibleRounds(roles, uid, row) ==
    \/ uid # NULL /\ row.user_id # NULL /\ uid = row.user_id
    \/ \E r \in BagToSet(roles) :
          /\ RolesUsing(roles, "SELECT", uid, r)
          /\ uid # NULL /\ r.user_id = uid
          /\ r.role \in {"manager", "admin"}
          /\ (r.location_access.null \/ row.location \in r.location_access.list)

RoundsUsing(roles, cmd, uid, row) ==
    CASE cmd = "SELECT" -> UsersCanViewAccessibleRounds(roles, uid, row)
      [] cmd \in {"UPDATE", "DELETE"} -> UsersCanChangeOwnRounds(uid, row)
      [] OTHER -> FALSE

RoundsWithCheck_none(cmd, uid, row) == TRUE

\* The new row of an INSERT, and of an UPDATE (whose policy has no WITH
\* CHECK, so that its USING holds for the new row too).
RoundsWithCheck(cmd, uid, row) ==
    CASE cmd = "INSERT" -> UsersCanCreateOwnRounds(uid, row)
      [] cmd = "UPDATE" -> UsersCanChangeOwnRounds(uid, row)
      [] OTHER -> FALSE

\* user_id UUID NOT NULL REFERENCES auth.users(id), location TEXT NOT NULL.
security_rounds_constraints(row) ==
    row.user_id # NULL /\ row.user_id \in auth_users /\ row.location # NULL

\* The number of rows of a bag.
RECURSIVE BagSize(_, _)
BagSize(b, S) ==
    IF S = {} THEN 0
    ELSE LET r == CHOOSE x \in S : TRUE
         IN  CopiesIn(r, b) + BagSize(b, S \ {r})

\* Bag b with every copy of the rows in hit patched by p.
RECURSIVE PatchRows(_, _, _)
PatchRows(b, hit, p) ==
    IF hit = {} THEN b
    ELSE LET r == CHOOSE x \in hit : TRUE
             n == CopiesIn(r, b)
             moved == [x \in {ApplyPatch(r, p)} |-> n]
         IN  PatchRows((b (-) [x \in {r} |-> n]), hit \ {r}, p) (+) moved

\* Bag b without the rows in hit.
RECURSIVE RemoveRows(_, _)
RemoveRows(b, hit) ==
    IF hit = {} THEN b
    ELSE LET r == CHOOSE x \in hit : TRUE
         IN  RemoveRows(b (-) [x \in {r} |-> CopiesIn(r, b)], hit \ {r})

\* from('security_rounds').insert([{user_id, location, ...}]).
InsertRound(uid, userId, location) ==
    /\ BagSize(security_rounds, BagToSet(security_rounds)) < MaxRounds
    /\ LET new == RoundRow(userId, location, uid)
           ok == RoundsWithCheck("INSERT", uid, new) /\ security_rounds_constraints(new)
       IN  /\ security_rounds' = IF ok THEN security_rounds (+) One(new)
                                 ELSE security_rounds
           /\ last' = Outcome("insert_round", uid, userId, 0, ok, IF ok THEN 1 ELSE 0)
    /\ selected' = NoSelect
    /\ UNCHANGED <<auth_users, user_roles, role_audit_log, uiVars>>
    /\ UNCHANGED extVars

\* from('security_rounds').update(patch).eq('user_id', userId).
UpdateRounds(uid, userId, p) ==
    /\ LET all == RowsOf(security_rounds, userId)
           hit == {r \in all : /\ RoundsUsing(user_roles, "UPDATE", uid, r)
                               /\ RoundsUsing(user_roles, "SELECT", uid, r)}
           ok == \A r \in hit :
                    /\ RoundsWithCheck("UPDATE", uid, ApplyPatch(r, p))
                    /\ security_rounds_constraints(ApplyPatch(r, p))
       IN  /\ security_rounds' = IF ok THEN PatchRows(security_rounds, hit, p)
                                 ELSE security_rounds
           /\ last' = Outcome("update_rounds", uid, userId,
                              BagSize(security_rounds, all), ok,
                              IF ok THEN BagSize(security_rounds, hit) ELSE 0)
    /\ selected' = NoSelect
    /\ UNCHANGED <<auth_users, user_roles, role_audit_log, uiVars>>
    /\ UNCHANGED extVars

\* from('security_rounds').delete().eq('user_id', userId).
DeleteRounds(uid, userId) ==
    /\ LET all == RowsOf(security_rounds, userId)
           hit == {r \in all : /\ RoundsUsing(user_roles, "DELETE", uid, r)
                               /\ RoundsUsing(user_roles, "SELECT", uid, r)}
       IN  /\ security_rounds' = RemoveRows(security_rounds, hit)
           /\ last' = Outcome("delete_rounds", uid, userId,
                              BagSize(security_rounds, all), TRUE,
                              BagSize(security_rounds, hit))
    /\ selected' = NoSelect
    /\ UNCHANGED <<auth_users, user_roles, role_audit_log, uiVars>>
    /\ UNCHANGED extVars

\* from('security_rounds').select('*'): the rows the SELECT policy passes.
SelectRounds(uid) ==
    /\ selected' = [uid |-> uid,
                    rows |-> {r \in BagToSet(security_rounds) :
                                 RoundsUsing(user_roles, "SELECT", uid, r)}]
    /\ last' = Outcome("select_rounds", uid, NULL,
                       BagSize(security_rounds, BagToSet(security_rounds)), TRUE, 0)
    /\ UNCHANGED <<auth_users, user_roles, role_audit_log, security_rounds, uiVars>>
    /\ UNCHANGED extVars

\* The location_access values of the role rows rounds are read under.
AccessChoices == {NullAccess} \cup {Access(S) : S \in SUBSET Locations}

\* Role tables requests leave: an admin and a manager, each with any
\* location_access, and a third identity with no role row or the role
\* security_guard.
InitRounds ==
    /\ auth_users = {SeedAdmin1, SeedManager} \cup NewUsers
    /\ \E la1 \in {NullAccess, Access({"Site B"})}, la2 \in AccessChoices,
          g \in SUBSET {RoleRow(n, "security_guard", NullAccess) : n \in NewUsers} :
          user_roles = SetToBag({RoleRow(SeedAdmin1, "admin", la1),
                                 RoleRow(SeedManager, "manager", la2)} \cup g)
    /\ role_audit_log = <<>>
    /\ security_rounds = EmptyBag
    /\ selected = NoSelect
    /\ last = [op |-> "none", caller |-> "anon", self |-> FALSE, matched |-> 0,
               ok |-> TRUE, rows |-> 0]
    /\ InitUi
    /\ InitExt

\* The SET clauses requests make on security_rounds.
RoundPatches ==
    {[col |-> "user_id", val |-> u] : u \in {SeedManager} \cup NewUsers}
    \cup {[col |-> "location", val |-> l] : l \in Locations}

NextRounds ==
    \/ \E uid \in Callers, u \in auth_users, l \in Locations : InsertRound(uid, u, l)
    \/ \E uid \in Callers, u \in auth_users, p \in RoundPatches : UpdateRounds(uid, u, p)
    \/ \E uid \in Callers, u \in auth_users : DeleteRounds(uid, u)
    \/ \E uid \in Callers : SelectRounds(uid)

SpecRounds == InitRounds /\ [][NextRounds]_vars

----------------------------------------------------------------------------
(* Round submissions: claims C6 and C7 *)

\* The read rule as stated: the owner, or a manager or admin whose
\* location_access is null or holds the round's location.
CanRead(uid, row) ==
    \/ uid = row.user_id
    \/ /\ get_user_role(user_roles, uid) \in {"manager", "admin"}
       /\ \A r \in RowsOf(user_roles, uid) :
              r.location_access = NullAccess
              \/ row.location \in r.location_access.list

\* C6: a stored round passes the SELECT policy for a requester exactly when
\* the requester owns it, or is a manager or admin whose location_access is
\* null or holds the round's location; and a SELECT returns exactly these
\* rounds.
C6_RoundsReadPolicy ==
    /\ \A uid \in Callers, r \in BagToSet(security_rounds) :
          RoundsUsing(user_roles, "SELECT", uid, r) <=> CanRead(uid, r)
    /\ last.op = "select_rounds" =>
          selected.rows = {r \in BagToSet(security_rounds) : CanRead(selected.uid, r)}

\* The manager, with location_access = ["Site A"], has selected while
\* another identity's rounds at Site A and at Site B are stored: it got the
\* first and not the second.
C6_Witness ==
    /\ last.op = "select_rounds" /\ selected.uid = SeedManager
    /\ RowsOf(user_roles, SeedManager) =
           {RoleRow(SeedManager, "manager", Access({"Site A"}))}
    /\ \E o \in auth_users \ {SeedManager} :
          /\ RoundRow(o, "Site A", o) \in selected.rows
          /\ RoundRow(o, "Site B", o) \in BagToSet(security_rounds) \ selected.rows

\* C7: an insert into security_rounds stores its row only when the row's
\* user_id is the requesting identity; with another user_id, or with no
\* identity, it is refused and security_rounds stays as it was.  So every
\* stored round is owned by the identity that inserted it.
C7_RoundsWritePolicy ==
    [][/\ (last'.op = "insert_round" /\ ~last'.self) =>
              last'.ok = FALSE /\ security_rounds' = security_rounds
       /\ \A r \in BagToSet(security_rounds') : r.by # NULL /\ r.user_id = r.by]_vars

\* A request has named another identity as the owner of the round it
\* inserts, and was refused, while a round is stored.
C7_Witness ==
    /\ last.op = "insert_round" /\ last.caller # "anon" /\ ~last.self /\ ~last.ok
    /\ security_rounds # EmptyBag

-----------------------------------------------------------------------------
\* The capture form (SecureRounds.tsx): text, the validation functions and
\* the QR scan handler.  A string is the sequence of its characters.

UpperCase == <<"A", "B", "C", "D", "E", "F", "G", "H", "I", "J", "K", "L", "M",
               "N", "O", "P", "Q", "R", "S", "T", "U", "V", "W", "X", "Y", "Z">>
LowerCase == <<"a", "b", "c", "d", "e", "f", "g", "h", "i", "j", "k", "l", "m",
               "n", "o", "p", "q", "r", "s", "t", "u", "v", "w", "x", "y", "z">>

\* Case folding of the regular expression's i flag: letters only.
Letters == {UpperCase[i] : i \in DOMAIN UpperCase}
ToLower == [c \in Letters |-> LowerCase[CHOOSE i \in DOMAIN UpperCase : UpperCase[i] = c]]

Fold(c) == IF c \in Letters THEN ToLower[c] ELSE c

\* The alternatives of dangerousPatterns.
dangerousPatterns ==
    { <<"<", "s", "c", "r", "i", "p", "t">>,
      <<"j", "a", "v", "a", "s", "c", "r", "i", "p", "t", ":">>,
      <<"d", "a", "t", "a", ":">>,
      <<"v", "b", "s", "c", "r", "i", "p", "t", ":">> }

\* RegExp.test with the i flag: some alternative matches at some position.
MatchesAt(str, pat, i) ==
    /\ i + Len(pat) - 1 <= Len(str)
    /\ \A j \in 1..Len(pat) : Fold(str[i + j - 1]) = Fold(pat[j])

\* RegExp.test without the i flag.
MatchesAt_caseSensitive(str, pat, i) ==
    /\ i + Len(pat) - 1 <= Len(str)
    /\ \A j \in 1..Len(pat) : str[i + j - 1] = pat[j]

Test(pats, str) ==
    \E pat \in pats : \E i \in 1..Len(str) : MatchesAt(str, pat, i)

\* The longest payload validateQRCode accepts.
MaxQRLength == 500

\* validateQRCode with the i flag dropped from dangerousPatterns.
validateQRCode_caseSensitive(qrData) ==
    /\ Len(qrData) > 0
    /\ Len(qrData) <= MaxQRLength
    /\ ~\E pat \in dangerousPatterns :
          \E i \in 1..Len(qrData) : MatchesAt_caseSensitive(qrData, pat, i)

validateQRCode(qrData) ==
    IF Len(qrData) = 0 THEN FALSE
    ELSE IF Len(qrData) > MaxQRLength THEN FALSE
    ELSE ~Test(dangerousPatterns, qrData)

\* String.prototype.trim over the white space the payloads use.
WhiteSpace == {" ", "\t", "\n"}

RECURSIVE TrimStart(_)
TrimStart(str) ==
    IF str # <<>> /\ Head(str) \in WhiteSpace THEN TrimStart(Tail(str)) ELSE str

RECURSIVE TrimEnd(_)
TrimEnd(str) ==
    IF str # <<>> /\ str[Len(str)] \in WhiteSpace
    THEN TrimEnd(SubSeq(str, 1, Len(str) - 1)) ELSE str

Trim(str) == TrimEnd(TrimStart(str))

Stripped == {"<", ">", "\"", "'", "&"}

IsKept(c) == c \notin Stripped

\* sanitizeInput without the trim.
sanitizeInput_noTrim(input) == SelectSeq(input, IsKept)

sanitizeInput(input) == Trim(SelectSeq(input, IsKept))

validateGPSCoordinates(lat, lng) ==
    lat >= -90 /\ lat <= 90 /\ lng >= -180 /\ lng <= 180

MaxFileSize == 10 * 1024 * 1024

validateFileSize(file) == file.size <= MaxFileSize

cornerKey(corner) ==
    CASE corner = 1 -> "qrCodeCorner1"
      [] corner = 2 -> "qrCodeCorner2"
      [] corner = 3 -> "qrCodeCorner3"
      [] corner = 4 -> "qrCodeCorner4"

Toast(title, corner) == [title |-> title, corner |-> corner, description |-> <<>>]

\* handleQRScan leaving a corner that holds a value as it is.
handleQRScanSteps_keepFirst(result) ==
    /\ showQRScanner
    /\ IF ~validateQRCode(result)
       THEN /\ toast' = Toast("Invalid QR Code", 0)
            /\ UNCHANGED <<formData, showQRScanner, currentCorner>>
       ELSE /\ formData' = IF formData[cornerKey(currentCorner)] # <<>> THEN formData
                           ELSE [formData EXCEPT
                                    ![cornerKey(currentCorner)] = sanitizeInput(result)]
            /\ showQRScanner' = FALSE
            /\ toast' = Toast("QR Code Scanned", currentCorner)
            /\ currentCorner' = IF currentCorner < 4 THEN currentCorner + 1
                                ELSE currentCorner
    /\ UNCHANGED <<photoData, showCamera, pending, done>>
    /\ UNCHANGED dbVars

\* QRScanner's callback (QRScanner.tsx line 23) hands the decoded payload to
\* handleQRScan while the scanner modal is mounted.
handleQRScanSteps(result) ==
    /\ showQRScanner
    /\ IF ~validateQRCode(result)
       THEN /\ toast' = Toast("Invalid QR Code", 0)
            /\ UNCHANGED <<formData, showQRScanner, currentCorner>>
       ELSE /\ formData' = [formData EXCEPT
                               ![cornerKey(currentCorner)] = sanitizeInput(result)]
            /\ showQRScanner' = FALSE
            /\ toast' = Toast("QR Code Scanned", currentCorner)
            /\ currentCorner' = IF currentCorner < 4 THEN currentCorner + 1
                                ELSE currentCorner
    /\ UNCHANGED <<photoData, showCamera, pending, done>>
    /\ UNCHANGED dbVars

handleQRScan(result) == handleQRScanSteps(result) /\ UNCHANGED extVars

\* handleQRScan, with the history of what it took.
handleQRScanRecorded(result) ==
    /\ handleQRScanSteps(result)
    /\ scanned' = IF validateQRCode(result)
                  THEN [scanned EXCEPT ![currentCorner] =
                                          [present |-> TRUE, data |-> result]]
                  ELSE scanned
    /\ UNCHANGED <<sweepVars, cameraVars, txnVars, limiterVars>>

\* The modals cover the form: its buttons answer only while none is open.
NoModal == ~showQRScanner /\ ~showCamera

\* The "Scan Corner" button.
OpenQRScanner ==
    /\ NoModal
    /\ showQRScanner' = TRUE
    /\ UNCHANGED <<formData, currentCorner, photoData, showCamera, toast, pending, done>>
    /\ UNCHANGED dbVars
    /\ UNCHANGED extVars

\* The scanner's onClose.
CloseQRScanner ==
    /\ showQRScanner
    /\ showQRScanner' = FALSE
    /\ UNCHANGED <<formData, currentCorner, photoData, showCamera, toast, pending, done>>
    /\ UNCHANGED dbVars
    /\ UNCHANGED extVars

\* The "Active Corner" buttons.
SelectCorner(corner) ==
    /\ NoModal
    /\ currentCorner' = corner
    /\ UNCHANGED <<formData, photoData, showQRScanner, showCamera, toast, pending, done>>
    /\ UNCHANGED dbVars
    /\ UNCHANGED extVars

\* handleChange keeping the value as typed.
ChangeField_raw(form, name, value) == [form EXCEPT ![name] = value]

\* What handleChange and handlePhotoCapture leave in the form.
ChangeField(form, name, value) == [form EXCEPT ![name] = sanitizeInput(value)]

CapturePhoto(form, file, coordinates) ==
    [form EXCEPT !.photo = file,
                 !.gpsLocation =
                     IF coordinates.present
                     THEN [text |-> "lat, lng", lat |-> coordinates.lat,
                           lng |-> coordinates.lng]
                     ELSE [text |-> "GPS unavailable", lat |-> 0, lng |-> 0]]

\* Payloads a QR code can carry.
ToUpper ==
    [c \in {LowerCase[i] : i \in DOMAIN LowerCase} |->
        UpperCase[CHOOSE i \in DOMAIN LowerCase : LowerCase[i] = c]]

Upper(str) ==
    [i \in DOMAIN str |-> IF str[i] \in DOMAIN ToUpper THEN ToUpper[str[i]] ELSE str[i]]

Mixed(str) == [i \in DOMAIN str |-> IF i % 2 = 0 THEN Upper(str)[i] ELSE str[i]]

Repeat(c, n) == [i \in 1..n |-> c]

DangerousPayloads ==
    { pre \o v \o post :
        v \in UNION {{pat, Upper(pat), Mixed(pat)} : pat \in dangerousPatterns},
        pre \in {<<>>, <<"x", " ">>}, post \in {<<>>, <<"1">>} }

QRPayloads ==
    DangerousPayloads
    \cup { <<>>, Repeat("a", MaxQRLength + 1), <<"<", ">">>,
           <<"A", "1">>, <<" ", "<", "A", "1", ">", " ">>, <<"B", "2">> }

\* A form in mid-capture: the text fields typed or not, the selfie taken or not.
TypedForm ==
    ChangeField(ChangeField(ChangeField(ChangeField(ChangeField(InitForm,
        "state", <<"K", "A">>), "siteCode", <<"S", "1">>),
        "siteName", <<"H", "Q">>), "guardName", <<" ", "A", "l">>),
        "employeeCode", <<"E", "7">>)

SomeFile == [present |-> TRUE, size |-> 1024]
SomeCoordinates == [present |-> TRUE, lat |-> 12, lng |-> 77]

InitScan ==
    /\ auth_users = {SeedAdmin1, SeedAdmin2, SeedManager}
    /\ user_roles = SeedRoles
    /\ role_audit_log = <<>>
    /\ security_rounds = EmptyBag
    /\ selected = NoSelect
    /\ last = [op |-> "none", caller |-> "anon", self |-> FALSE, matched |-> 0,
               ok |-> TRUE, rows |-> 0]
    /\ \E form \in {InitForm, TypedForm}, taken \in BOOLEAN :
          /\ formData = IF taken THEN CapturePhoto(form, SomeFile, SomeCoordinates)
                        ELSE form
          /\ photoData = IF taken
                         THEN [present |-> TRUE, file |-> SomeFile,
                               coordinates |-> SomeCoordinates]
                         ELSE NoPhoto
    /\ currentCorner = 1
    /\ showQRScanner = FALSE
    /\ showCamera = FALSE
    /\ toast = NoToast
    /\ pending = EmptyBag
    /\ done = NoOutcome
    /\ InitExt

NextScan ==
    \/ OpenQRScanner
    \/ CloseQRScanner
    \/ \E corner \in 1..4 : SelectCorner(corner)
    \/ \E result \in QRPayloads : handleQRScan(result)

SpecScan == InitScan /\ [][NextScan]_vars

\* C10: a scanned payload that contains "<script", "javascript:", "data:" or
\* "vbscript:" in any letter case, or is empty, or is longer than 500
\* characters, is rejected: the corner codes, the form fields, the photo, the
\* coordinates and the active corner are all as they were before the scan.
HasIgnoringCase(str, word) ==
    \E i \in 1..(Len(str) - Len(word) + 1) :
        \A j \in 1..Len(word) : str[i + j - 1] \in {word[j], Upper(word)[j]}

MustReject(str) ==
    \/ Len(str) = 0
    \/ Len(str) > 500
    \/ HasIgnoringCase(str, <<"<", "s", "c", "r", "i", "p", "t">>)
    \/ HasIgnoringCase(str, <<"j", "a", "v", "a", "s", "c", "r", "i", "p", "t", ":">>)
    \/ HasIgnoringCase(str, <<"d", "a", "t", "a", ":">>)
    \/ HasIgnoringCase(str, <<"v", "b", "s", "c", "r", "i", "p", "t", ":">>)

RejectedPayloads == {result \in QRPayloads : MustReject(result)}

CaptureUnchanged ==
    /\ formData' = formData
    /\ photoData' = photoData
    /\ currentCorner' = currentCorner

\* Every step either leaves the capture state as it was or is not the scan
\* of a payload that must be rejected.
C10_ScanRejectsDangerousPayload ==
    [][CaptureUnchanged \/ ~\E result \in RejectedPayloads : handleQRScan(result)]_vars

\* A dangerous payload has just been refused on corner 2 of a form that
\* already holds a scanned corner, typed fields and a selfie.
C10_Witness ==
    /\ toast.title = "Invalid QR Code"
    /\ showQRScanner
    /\ currentCorner = 2
    /\ formData.qrCodeCorner1 # <<>>
    /\ formData.guardName # <<>>
    /\ photoData.present

\* C11: an accepted scan made while the active corner is k stores, at corner
\* k, the payload with the characters < > " ' & removed and the white space
\* at its ends dropped; the active corner becomes min(k + 1, 4); the other
\* corners, the photo, the coordinates and the form fields stay as they
\* were.  The active corner is always one of 1..4.
IsPlain(c) == c \notin {"<", ">", "\"", "'", "&"}

Clean(str) ==
    LET plain == SelectSeq(str, IsPlain)
        inked == {i \in 1..Len(plain) : plain[i] \notin {" ", "\t", "\n"}}
        first == CHOOSE i \in inked : \A j \in inked : i <= j
        final == CHOOSE i \in inked : \A j \in inked : i >= j
    IN  IF inked = {} THEN <<>> ELSE SubSeq(plain, first, final)

AcceptedPayloads == QRPayloads \ RejectedPayloads

CornerField == <<"qrCodeCorner1", "qrCodeCorner2", "qrCodeCorner3", "qrCodeCorner4">>

C11_AcceptedScanStoresSanitized ==
    [][/\ currentCorner' \in 1..4
       /\ \A result \in AcceptedPayloads :
             handleQRScan(result) =>
                 /\ formData' = [formData EXCEPT
                                    ![CornerField[currentCorner]] = Clean(result)]
                 /\ currentCorner' = IF currentCorner + 1 <= 4 THEN currentCorner + 1
                                     ELSE 4
                 /\ photoData' = photoData]_vars

\* Corner 4 has just taken a payload that carried markup and spaces, on a form
\* with a selfie and another corner scanned: the active corner stays at 4.
C11_Witness ==
    /\ toast.title = "QR Code Scanned" /\ toast.corner = 4
    /\ currentCorner = 4
    /\ formData.qrCodeCorner4 = <<"A", "1">>
    /\ formData.qrCodeCorner1 = <<"B", "2">>
    /\ formData.qrCodeCorner2 = <<>>
    /\ photoData.present

-----------------------------------------------------------------------------
\* The capture form (SecureRounds.tsx): the selfie and the submission.

\* validateTextInput without the length limit.
validateTextInput_noMax(input, maxLength) ==
    /\ Len(input) > 0
    /\ Len(sanitizeInput(input)) > 0

validateTextInput(input, maxLength) ==
    /\ Len(input) > 0
    /\ Len(sanitizeInput(input)) > 0
    /\ Len(input) <= maxLength

\* allQRCodesScanned satisfied by any one corner.
allQRCodesScanned_any(form) ==
    \/ form.qrCodeCorner1 # <<>>
    \/ form.qrCodeCorner2 # <<>>
    \/ form.qrCodeCorner3 # <<>>
    \/ form.qrCodeCorner4 # <<>>

allQRCodesScanned(form) ==
    /\ form.qrCodeCorner1 # <<>>
    /\ form.qrCodeCorner2 # <<>>
    /\ form.qrCodeCorner3 # <<>>
    /\ form.qrCodeCorner4 # <<>>

\* The text checks of handleSubmit, in the order it makes them.
TextChecks ==
    << [field |-> "state", maxLength |-> 50,
        reason |-> "State is required and must be valid"],
       [field |-> "siteCode", maxLength |-> 20,
        reason |-> "Site code is required and must be valid"],
       [field |-> "siteName", maxLength |-> 100,
        reason |-> "Site name is required and must be valid"],
       [field |-> "guardName", maxLength |-> 100,
        reason |-> "Guard name is required and must be valid"],
       [field |-> "employeeCode", maxLength |-> 50,
        reason |-> "Employee code is required and must be valid"] >>

RECURSIVE TextErrors(_, _)
TextErrors(form, checks) ==
    IF checks = <<>> THEN <<>>
    ELSE (IF ~validateTextInput(form[Head(checks).field], Head(checks).maxLength)
          THEN <<Head(checks).reason>> ELSE <<>>)
         \o TextErrors(form, Tail(checks))

\* validationErrors cut to its first reason.
validationErrors_firstOnly(form, photo) ==
    LET all == TextErrors(form, TextChecks)
               \o (IF ~allQRCodesScanned(form)
                   THEN <<"All 4 corner QR codes must be scanned">> ELSE <<>>)
               \o (IF ~photo.present
                   THEN <<"Selfie with GPS coordinates is required">> ELSE <<>>)
    IN  IF all = <<>> THEN <<>> ELSE <<Head(all)>>

\* validationErrors of the text fields alone.
validationErrors_textOnly(form, photo) == TextErrors(form, TextChecks)

\* validationErrors as handleSubmit has pushed it when it tests its length.
validationErrors(form, photo) ==
    TextErrors(form, TextChecks)
    \o (IF ~allQRCodesScanned(form)
        THEN <<"All 4 corner QR codes must be scanned">> ELSE <<>>)
    \o (IF ~photo.present
        THEN <<"Selfie with GPS coordinates is required">> ELSE <<>>)

\* submissionData, and the columns the insert leaves to their defaults.  by is
\* not a column: it records the identity of the request that inserted the row.
submissionData(user, form, photo, by) ==
    [user_id |-> user,
     location |-> sanitizeInput(form.state) \o <<" ", "-", " ">>
                  \o sanitizeInput(form.siteName),
     guard_name |-> sanitizeInput(form.guardName),
     employee_id |-> sanitizeInput(form.employeeCode),
     qr_code_corner_1 |-> sanitizeInput(form.qrCodeCorner1),
     qr_code_corner_2 |-> sanitizeInput(form.qrCodeCorner2),
     qr_code_corner_3 |-> sanitizeInput(form.qrCodeCorner3),
     qr_code_corner_4 |-> sanitizeInput(form.qrCodeCorner4),
     gps_coordinates |-> photo.coordinates,
     photo_url |-> NULL,
     by |-> by]

\* The notices of handleSubmit.
AuthenticationRequired ==
    [title |-> "Authentication Required", corner |-> 0,
     description |-> <<"Please log in to submit checkpoint data.">>]

ValidationError(errors) ==
    [title |-> "Validation Error", corner |-> 0, description |-> errors]

\* The notice of the catch block with the message of the error thrown.
SubmissionFailed_detail(error) ==
    [title |-> "Submission Failed", corner |-> 0, description |-> <<error>>]

\* The notice of the catch block.
SubmissionFailed(error) ==
    [title |-> "Submission Failed", corner |-> 0,
     description |-> <<"Unable to save checkpoint data. Please try again.">>]

\* The most handleSubmit calls awaiting a reply at once.
MaxInFlight == 1

\* The identity of the guard's session.
Guard == "n1"

\* A submit event on the form: handleSubmit runs up to its first await, the
\* identity lookup.  The call keeps the formData and photoData of the render
\* it was made in.
handleSubmitUpTo(inFlight) ==
    /\ NoModal
    /\ BagSize(pending, BagToSet(pending)) < inFlight
    /\ pending' = pending (+) One([pc |-> "getUser", form |-> formData,
                                   photo |-> photoData, user |-> NULL,
                                   calls |-> <<"getUser">>])
    /\ UNCHANGED <<formData, currentCorner, photoData, showQRScanner, showCamera,
                   toast, done>>
    /\ UNCHANGED dbVars
    /\ UNCHANGED extVars

handleSubmit == handleSubmitUpTo(MaxInFlight)

\* getUserReplies going on to its checks without an identity.
getUserReplies_noIdentityCheck(s, user) ==
    /\ BagIn(s, pending) /\ s.pc = "getUser"
    /\ LET errors == validationErrors(s.form, s.photo)
       IN  IF Len(errors) > 0
           THEN /\ toast' = ValidationError(errors)
                /\ done' = [result |-> "invalid", calls |-> s.calls]
                /\ pending' = pending (-) One(s)
           ELSE /\ pending' = (pending (-) One(s))
                                (+) One([s EXCEPT !.pc = "insert", !.user = user,
                                                  !.calls = Append(@, "insert")])
                /\ UNCHANGED <<toast, done>>
    /\ UNCHANGED <<formData, currentCorner, photoData, showQRScanner, showCamera>>
    /\ UNCHANGED dbVars
    /\ UNCHANGED extVars

\* The identity lookup of a pending call replies with user (NULL: no session)
\* and handleSubmit runs on: refused without an identity, refused with the
\* list of failed checks, or on to its second await, the insert.
getUserReplies(s, user) ==
    /\ BagIn(s, pending) /\ s.pc = "getUser"
    /\ LET errors == validationErrors(s.form, s.photo)
       IN  IF user = NULL
           THEN /\ toast' = AuthenticationRequired
                /\ done' = [result |-> "unauthenticated", calls |-> s.calls]
                /\ pending' = pending (-) One(s)
           ELSE IF Len(errors) > 0
           THEN /\ toast' = ValidationError(errors)
                /\ done' = [result |-> "invalid", calls |-> s.calls]
                /\ pending' = pending (-) One(s)
           ELSE /\ pending' = (pending (-) One(s))
                                (+) One([s EXCEPT !.pc = "insert", !.user = user,
                                                  !.calls = Append(@, "insert")])
                /\ UNCHANGED <<toast, done>>
    /\ UNCHANGED <<formData, currentCorner, photoData, showQRScanner, showCamera>>
    /\ UNCHANGED dbVars
    /\ UNCHANGED extVars

\* The insert of a pending call is answered.  It reached the store or not; at
\* the store it ran as uid, the session's identity at that time, under the
\* INSERT policy and the constraints of security_rounds.  On success the form
\* is reset; on an error the catch block shows its notice.
insertReplies(s, uid, reached) ==
    /\ BagIn(s, pending) /\ s.pc = "insert"
    /\ LET row == submissionData(s.user, s.form, s.photo, uid)
           ok == /\ reached
                 /\ RoundsWithCheck("INSERT", uid, row)
                 /\ security_rounds_constraints(row)
           error == IF reached THEN "new row violates row-level security policy"
                    ELSE "Failed to fetch"
       IN  /\ security_rounds' = IF ok THEN security_rounds (+) One(row)
                                 ELSE security_rounds
           /\ last' = IF reached
                      THEN Outcome("insert_round", uid, s.user, 0, ok, IF ok THEN 1 ELSE 0)
                      ELSE last
           /\ selected' = IF ok THEN [uid |-> uid, rows |-> {row}] ELSE NoSelect
           /\ IF ok
              THEN /\ toast' = Toast("Checkpoint Logged Successfully", 0)
                   /\ formData' = InitForm
                   /\ photoData' = NoPhoto
                   /\ currentCorner' = 1
                   /\ done' = [result |-> "success", calls |-> s.calls]
              ELSE /\ toast' = SubmissionFailed(error)
                   /\ done' = [result |-> "failed", calls |-> s.calls]
                   /\ UNCHANGED <<formData, photoData, currentCorner>>
    /\ pending' = pending (-) One(s)
    /\ UNCHANGED <<auth_users, user_roles, role_audit_log, showQRScanner, showCamera>>
    /\ UNCHANGED extVars

\* The "Take Selfie" button.
OpenCamera ==
    /\ NoModal
    /\ showCamera' = TRUE
    /\ UNCHANGED <<formData, currentCorner, photoData, showQRScanner, toast,
                   pending, done>>
    /\ UNCHANGED dbVars
    /\ UNCHANGED extVars

\* The camera's onClose.
CloseCamera ==
    /\ showCamera
    /\ showCamera' = FALSE
    /\ UNCHANGED <<formData, currentCorner, photoData, showQRScanner, toast,
                   pending, done>>
    /\ UNCHANGED dbVars
    /\ UNCHANGED extVars

\* handlePhotoCapture without the size check.
handlePhotoCapture_anySize(data) ==
    /\ showCamera
    /\ LET coordinates ==
               IF data.coordinates.present
                  /\ ~validateGPSCoordinates(data.coordinates.lat, data.coordinates.lng)
               THEN NoCoordinates ELSE data.coordinates
       IN  /\ photoData' = [present |-> TRUE, file |-> data.file,
                            coordinates |-> coordinates]
           /\ formData' = CapturePhoto(formData, data.file, coordinates)
           /\ showCamera' = FALSE
           /\ toast' = Toast("Selfie Captured", 0)
    /\ UNCHANGED <<currentCorner, showQRScanner, pending, done>>
    /\ UNCHANGED dbVars
    /\ UNCHANGED extVars

\* handlePhotoCapture without the coordinates check.
handlePhotoCapture_anyCoordinates(data) ==
    /\ showCamera
    /\ IF ~validateFileSize(data.file)
       THEN /\ toast' = Toast("File Too Large", 0)
            /\ UNCHANGED <<photoData, formData, showCamera>>
       ELSE /\ photoData' = [present |-> TRUE, file |-> data.file,
                             coordinates |-> data.coordinates]
            /\ formData' = CapturePhoto(formData, data.file, data.coordinates)
            /\ showCamera' = FALSE
            /\ toast' = Toast("Selfie Captured", 0)
    /\ UNCHANGED <<currentCorner, showQRScanner, pending, done>>
    /\ UNCHANGED dbVars
    /\ UNCHANGED extVars

\* What handlePhotoCapture does with CameraCapture's onCapture({file,
\* coordinates}).
handlePhotoCaptureSteps(data) ==
    /\ IF ~validateFileSize(data.file)
       THEN /\ toast' = Toast("File Too Large", 0)
            /\ UNCHANGED <<photoData, formData, showCamera>>
       ELSE LET coordinates ==
                    IF data.coordinates.present
                       /\ ~validateGPSCoordinates(data.coordinates.lat,
                                                  data.coordinates.lng)
                    THEN NoCoordinates ELSE data.coordinates
            IN  /\ photoData' = [present |-> TRUE, file |-> data.file,
                                 coordinates |-> coordinates]
                /\ formData' = CapturePhoto(formData, data.file, coordinates)
                /\ showCamera' = FALSE
                /\ toast' = Toast("Selfie Captured", 0)
    /\ UNCHANGED <<currentCorner, showQRScanner, pending, done>>
    /\ UNCHANGED dbVars

\* onCapture called while the camera modal is mounted.
handlePhotoCapture(data) ==
    /\ showCamera
    /\ handlePhotoCaptureSteps(data)
    /\ UNCHANGED extVars

\* CameraCapture's capturePhoto: the frame is drawn and canvas.toBlob is
\* called; its callback is queued with the coordinates of this render.
capturePhoto(data) ==
    /\ showCamera
    /\ ~blob.present
    /\ blob' = [present |-> TRUE, data |-> data]
    /\ UNCHANGED uiVars
    /\ UNCHANGED dbVars
    /\ UNCHANGED <<sweepVars, scanVars, txnVars, limiterVars>>

\* The toBlob callback runs: with a blob it calls onCapture, which is the
\* handlePhotoCapture of the render that mounted the camera; with none it
\* does nothing.  Nothing in it looks at whether the camera is still open.
toBlobCallback(encoded) ==
    /\ blob.present
    /\ blob' = NoBlob
    /\ IF encoded THEN handlePhotoCaptureSteps(blob.data)
       ELSE UNCHANGED uiVars /\ UNCHANGED dbVars
    /\ UNCHANGED <<sweepVars, scanVars, txnVars, limiterVars>>

\* What the camera can hand over: a file of some size, with the position fix
\* or without one.
File(size) == [present |-> TRUE, size |-> size]
Coordinates(lat, lng) == [present |-> TRUE, lat |-> lat, lng |-> lng]

PhotoInputs ==
    { [file |-> SomeFile, coordinates |-> NoCoordinates],
      [file |-> File(MaxFileSize), coordinates |-> Coordinates(90, -180)],
      [file |-> File(MaxFileSize + 1), coordinates |-> Coordinates(90, -180)],
      [file |-> File(MaxFileSize + 1), coordinates |-> NoCoordinates],
      [file |-> SomeFile, coordinates |-> Coordinates(91, 0)],
      [file |-> File(MaxFileSize), coordinates |-> Coordinates(-91, 0)],
      [file |-> File(MaxFileSize), coordinates |-> Coordinates(0, 181)],
      [file |-> File(MaxFileSize), coordinates |-> Coordinates(0, -181)],
      [file |-> File(MaxFileSize), coordinates |-> Coordinates(-91, 181)] }

\* Forms handleChange and handleQRScan leave: each text field empty or typed
\* to its full length, or one of them a character longer; the corners all
\* scanned, or all but one.
TextFields == {TextChecks[i].field : i \in DOMAIN TextChecks}

MaxLengthOf(field) ==
    (CHOOSE c \in {TextChecks[i] : i \in DOMAIN TextChecks} : c.field = field).maxLength

RECURSIVE Typed(_, _, _)
Typed(form, fields, extra) ==
    IF fields = {} THEN form
    ELSE LET f == CHOOSE x \in fields : TRUE
         IN  Typed(ChangeField(form, f, Repeat("a", MaxLengthOf(f) + extra)),
                   fields \ {f}, extra)

RECURSIVE Scanned(_, _)
Scanned(form, corners) ==
    IF corners = {} THEN form
    ELSE LET k == CHOOSE x \in corners : TRUE
         IN  Scanned([form EXCEPT ![cornerKey(k)] = sanitizeInput(<<"A", "1">>)],
                     corners \ {k})

\* A form whose fields were each set by one change event carrying characters
\* that handleChange strips and blanks that it trims.
PastedForm ==
    ChangeField(ChangeField(ChangeField(ChangeField(ChangeField(InitForm,
        "state", <<" ", "K", "&", "A", " ">>),
        "siteCode", <<"S", "'", "1">>),
        "siteName", <<"<", "H", ">", " ", "Q">>),
        "guardName", <<"g", "u", "a", "r", "d", " ", "\"", "O", "'", "B", "r",
                       "i", "e", "n", "\"", " ", "<", "b", ">">>),
        "employeeCode", <<"\"", "E", "7", "\"", " ">>)

TypedForms ==
    {Typed(InitForm, F, 0) : F \in SUBSET TextFields}
    \cup {Typed(Typed(InitForm, TextFields \ {f}, 0), {f}, 1) : f \in TextFields}
    \cup {PastedForm}

InitSubmit ==
    /\ auth_users = {SeedAdmin1, SeedManager} \cup NewUsers
    /\ user_roles = SeedRoles
    /\ role_audit_log = <<>>
    /\ security_rounds = EmptyBag
    /\ selected = NoSelect
    /\ last = [op |-> "none", caller |-> "anon", self |-> FALSE, matched |-> 0,
               ok |-> TRUE, rows |-> 0]
    /\ \E form \in TypedForms, corners \in {1..4, {1, 2, 4}} :
          formData = Scanned(form, corners)
    /\ currentCorner = 4
    /\ photoData = NoPhoto
    /\ showQRScanner = FALSE
    /\ showCamera = FALSE
    /\ toast = NoToast
    /\ pending = EmptyBag
    /\ done = NoOutcome
    /\ InitExt

NextSubmit ==
    \/ OpenCamera
    \/ CloseCamera
    \/ \E data \in PhotoInputs : handlePhotoCapture(data)
    \/ handleSubmit
    \/ \E s \in BagToSet(pending), user \in {NULL, Guard} : getUserReplies(s, user)
    \/ \E s \in BagToSet(pending), uid \in {NULL, Guard}, reached \in BOOLEAN :
          insertReplies(s, uid, reached)

SpecSubmit == InitSubmit /\ [][NextSubmit]_vars

\* The form pressed again while a call is awaiting its reply: nothing in
\* handleSubmit or on the submit button looks at a call in flight.  The
\* most calls in flight here:
MaxResubmit == 2

InitResubmit ==
    /\ auth_users = {SeedAdmin1, SeedManager} \cup NewUsers
    /\ user_roles = SeedRoles
    /\ role_audit_log = <<>>
    /\ security_rounds = EmptyBag
    /\ selected = NoSelect
    /\ last = [op |-> "none", caller |-> "anon", self |-> FALSE, matched |-> 0,
               ok |-> TRUE, rows |-> 0]
    /\ \E corners \in {1..4, {1, 2, 4}} : formData = Scanned(PastedForm, corners)
    /\ currentCorner = 4
    /\ photoData = NoPhoto
    /\ showQRScanner = FALSE
    /\ showCamera = FALSE
    /\ toast = NoToast
    /\ pending = EmptyBag
    /\ done = NoOutcome
    /\ InitExt

NextResubmit ==
    \/ OpenCamera
    \/ CloseCamera
    \/ \E data \in PhotoInputs : handlePhotoCapture(data)
    \/ handleSubmitUpTo(MaxResubmit)
    \/ \E s \in BagToSet(pending), user \in {NULL, Guard} : getUserReplies(s, user)
    \/ \E s \in BagToSet(pending), uid \in {NULL, Guard}, reached \in BOOLEAN :
          insertReplies(s, uid, reached)

SpecResubmit == InitResubmit /\ [][NextResubmit]_vars

-----------------------------------------------------------------------------
(* The submission: claims C12 to C18 *)

\* The preconditions of a submission as stated: four corners, a photo, five
\* text fields each non-empty once cleaned and within its length.
FieldLimit ==
    [state |-> 50, siteCode |-> 20, siteName |-> 100, guardName |-> 100,
     employeeCode |-> 50]

FieldPasses(form, f) == Clean(form[f]) # <<>> /\ Len(form[f]) <= FieldLimit[f]

CornersPass(form) == \A k \in 1..4 : form[CornerField[k]] # <<>>

Preconditions(form, photo) ==
    /\ CornersPass(form)
    /\ photo.present
    /\ \A f \in DOMAIN FieldLimit : FieldPasses(form, f)

\* The call s has ended with this step.
Ended(s) == pending' = pending (-) One(s)

\* The store takes the insert of call s: it got there, made by the identity
\* the row names.
StoreAccepts(s, uid, reached) == reached /\ uid # NULL /\ uid = s.user

\* C12 as stated: a call of handleSubmit ends in success exactly when its
\* preconditions hold.
C12_SubmitSucceedsIffPreconditions ==
    [][\A s \in BagToSet(pending) :
          /\ \A user \in {NULL, Guard} :
                (getUserReplies(s, user) /\ Ended(s)) =>
                    (done'.result = "success" <=> Preconditions(s.form, s.photo))
          /\ \A uid \in {NULL, Guard}, reached \in BOOLEAN :
                insertReplies(s, uid, reached) =>
                    (done'.result = "success" <=> Preconditions(s.form, s.photo))]_vars

\* C12 amended: a call of handleSubmit issues the insert exactly when an
\* identity is present and its preconditions hold, and it ends in success
\* exactly when, besides, the store takes the insert.
C12_SubmitSucceedsIffPreconditionsIdentityAndStore ==
    [][pending' # pending => \A s \in BagToSet(pending) :
          /\ \A user \in {NULL, Guard} :
                getUserReplies(s, user) =>
                    /\ ~Ended(s) <=> (user # NULL /\ Preconditions(s.form, s.photo))
                    /\ ~Ended(s) =>
                          BagIn([s EXCEPT !.pc = "insert", !.user = user,
                                          !.calls = <<"getUser", "insert">>], pending')
                    /\ Ended(s) => done'.result # "success"
          /\ \A uid \in {NULL, Guard}, reached \in BOOLEAN :
                insertReplies(s, uid, reached) =>
                    /\ Preconditions(s.form, s.photo)
                    /\ Ended(s)
                    /\ done'.result = "success" <=> StoreAccepts(s, uid, reached)]_vars

\* A call has ended in success and its round is stored.
C12_Witness ==
    /\ done.result = "success"
    /\ toast.title = "Checkpoint Logged Successfully"
    /\ security_rounds # EmptyBag

\* C13: a call refused by its checks shows one reason for each check that
\* failed and none for a check that passed.
ReasonOf ==
    [state |-> "State is required and must be valid",
     siteCode |-> "Site code is required and must be valid",
     siteName |-> "Site name is required and must be valid",
     guardName |-> "Guard name is required and must be valid",
     employeeCode |-> "Employee code is required and must be valid"]

FailedReasons(form, photo) ==
    {ReasonOf[f] : f \in {g \in DOMAIN FieldLimit : ~FieldPasses(form, g)}}
    \cup (IF CornersPass(form) THEN {} ELSE {"All 4 corner QR codes must be scanned"})
    \cup (IF photo.present THEN {} ELSE {"Selfie with GPS coordinates is required"})

C13_RefusalListsEveryReason ==
    [][pending' # pending => \A s \in BagToSet(pending) :
          (getUserReplies(s, Guard) /\ ~Preconditions(s.form, s.photo)) =>
              LET failed == FailedReasons(s.form, s.photo)
              IN  /\ toast'.title = "Validation Error"
                  /\ {toast'.description[i] : i \in DOMAIN toast'.description} = failed
                  /\ Len(toast'.description) = Cardinality(failed)]_vars

\* A call with an identity was refused with all seven reasons.
C13_Witness ==
    /\ toast.title = "Validation Error"
    /\ Len(toast.description) = 7
    /\ done.result = "invalid"

\* C14: a call whose preconditions are unmet changes, at none of its steps,
\* the capture state or the store, and issues no insert, however many such
\* calls are made.
C14_RejectionIdempotent ==
    [][/\ (handleSubmit /\ ~Preconditions(formData, photoData)) =>
              CaptureUnchanged /\ security_rounds' = security_rounds
       /\ \A s \in BagToSet(pending) :
             /\ s.pc = "insert" => Preconditions(s.form, s.photo)
             /\ pending' # pending =>
                   \A user \in {NULL, Guard} :
                       (getUserReplies(s, user) /\ ~Preconditions(s.form, s.photo)) =>
                           /\ CaptureUnchanged
                           /\ security_rounds' = security_rounds
                           /\ Ended(s)]_vars

\* A call was refused by its checks, the next one on the same form is
\* awaiting its identity, and nothing is stored.
C14_Witness ==
    /\ done.result = "invalid"
    /\ \E s \in BagToSet(pending) :
          s.pc = "getUser" /\ s.form = formData /\ ~Preconditions(s.form, s.photo)
    /\ security_rounds = EmptyBag

\* C15: a call that finds no identity is refused there, is not sent to the
\* store and changes nothing, whatever the form holds.
C15_FailsClosedWithoutIdentity ==
    [][\A s \in BagToSet(pending) :
          getUserReplies(s, NULL) =>
              /\ Ended(s)
              /\ done' = [result |-> "unauthenticated", calls |-> <<"getUser">>]
              /\ toast'.title = "Authentication Required"
              /\ CaptureUnchanged
              /\ security_rounds' = security_rounds]_vars

\* A call on a form that passes every check was refused for want of an
\* identity, and nothing is stored.
C15_Witness ==
    /\ done.result = "unauthenticated"
    /\ toast.title = "Authentication Required"
    /\ Preconditions(formData, photoData)
    /\ pending = EmptyBag
    /\ security_rounds = EmptyBag

\* C16: a call that ends in success issued one insert, as its last operation,
\* after its identity and its checks were settled, and stored one round; no
\* other step stores a round.
Count(calls, op) == Cardinality({i \in DOMAIN calls : calls[i] = op})

C16_OneInsertAndLast ==
    [][/\ pending' # pending => \A s \in BagToSet(pending) :
             \A uid \in {NULL, Guard}, reached \in BOOLEAN :
                 insertReplies(s, uid, reached) =>
                     /\ Count(s.calls, "insert") = 1
                     /\ s.calls[Len(s.calls)] = "insert"
                     /\ s.calls[1] = "getUser"
                     /\ s.user # NULL
                     /\ Preconditions(s.form, s.photo)
                     /\ Ended(s)
                     /\ done'.calls = s.calls
                     /\ done'.result = "success" =>
                           \E row \in BagToSet(security_rounds') :
                               security_rounds' = security_rounds (+) One(row)
       /\ security_rounds' # security_rounds =>
             /\ done'.result = "success"
             /\ BagSize(security_rounds', BagToSet(security_rounds'))
                    = BagSize(security_rounds, BagToSet(security_rounds)) + 1
             /\ \E s \in BagToSet(pending) : s.pc = "insert" /\ Ended(s)]_vars

\* A call ended in success after its two operations, with one round stored.
C16_Witness ==
    /\ done = [result |-> "success", calls |-> <<"getUser", "insert">>]
    /\ BagSize(security_rounds, BagToSet(security_rounds)) = 1
    /\ pending = EmptyBag

\* C17: when the store takes the insert the capture state is the initial one
\* again; when it does not, the capture state is kept and the notice is the
\* general one, without the store's error.
InitialCapture(form, photo, corner) ==
    /\ \A f \in DOMAIN FieldLimit : form[f] = <<>>
    /\ \A k \in 1..4 : form[CornerField[k]] = <<>>
    /\ form.timestamp = <<>>
    /\ ~form.photo.present
    /\ form.gpsLocation.text = ""
    /\ ~photo.present
    /\ corner = 1

GeneralNotice ==
    [title |-> "Submission Failed", corner |-> 0,
     description |-> <<"Unable to save checkpoint data. Please try again.">>]

C17_ResetOnSuccessRetainOnFailure ==
    [][\A s \in BagToSet(pending) :
          \A uid \in {NULL, Guard}, reached \in BOOLEAN :
              insertReplies(s, uid, reached) =>
                  IF StoreAccepts(s, uid, reached)
                  THEN /\ done'.result = "success"
                       /\ InitialCapture(formData', photoData', currentCorner')
                  ELSE /\ done'.result = "failed"
                       /\ CaptureUnchanged
                       /\ security_rounds' = security_rounds
                       /\ toast' = GeneralNotice]_vars

\* The store refused an insert; the form and the photo are still there for
\* another try, under the general notice.
C17_Witness ==
    /\ done.result = "failed"
    /\ toast = GeneralNotice
    /\ Preconditions(formData, photoData)
    /\ security_rounds = EmptyBag

\* C18: every stored round has four non-empty cleaned corners, a photo and an
\* owner.
C18_NoPartialPersistence ==
    \A row \in BagToSet(security_rounds) :
        /\ \A c \in {row.qr_code_corner_1, row.qr_code_corner_2,
                     row.qr_code_corner_3, row.qr_code_corner_4} :
              c # NULL /\ c # <<>> /\ c = Clean(c)
        /\ row.photo_url # NULL
        /\ row.user_id # NULL

-----------------------------------------------------------------------------
(* The selfie: claims C19 and C20 *)

TenMB == 10 * 1024 * 1024

\* C19: a photo above 10MB is refused and the photo, the coordinates and the
\* rest of the capture state stay as they were; a photo of 10MB or less is
\* taken.
C19_OversizedPhotoRejected ==
    [][\A data \in PhotoInputs :
          handlePhotoCapture(data) =>
              IF data.file.size > TenMB
              THEN /\ CaptureUnchanged
                   /\ security_rounds' = security_rounds
                   /\ toast'.title = "File Too Large"
              ELSE /\ photoData'.present
                   /\ photoData'.file = data.file
                   /\ formData'.photo = data.file]_vars

\* A photo above 10MB was refused while an earlier photo of exactly 10MB,
\* with its coordinates, is still the one held.
C19_Witness ==
    /\ toast.title = "File Too Large"
    /\ photoData.present
    /\ photoData.file.size = TenMB
    /\ photoData.coordinates.present
    /\ formData.photo = photoData.file

\* C20: coordinates out of range that come with an acceptable photo leave the
\* photo taken and the coordinates null; the coordinates held, and those of
\* every stored round, are null or a pair in range.
InRange(c) == c.lat >= -90 /\ c.lat <= 90 /\ c.lng >= -180 /\ c.lng <= 180

NullOrInRange(c) == IF c.present THEN InRange(c) ELSE c.lat = 0 /\ c.lng = 0

C20_InvalidCoordinatesNulled ==
    [][/\ \A data \in PhotoInputs :
             (/\ handlePhotoCapture(data)
              /\ data.file.size <= TenMB
              /\ data.coordinates.present
              /\ ~InRange(data.coordinates)) =>
                 /\ photoData'.present
                 /\ photoData'.file = data.file
                 /\ ~photoData'.coordinates.present
                 /\ formData'.gpsLocation.text = "GPS unavailable"
       /\ NullOrInRange(photoData'.coordinates)
       /\ \A row \in BagToSet(security_rounds') :
             NullOrInRange(row.gps_coordinates)]_vars

\* A photo that came with coordinates out of range is held without
\* coordinates, and a round is stored with coordinates in range.
C20_Witness ==
    /\ photoData.present
    /\ photoData.file.size = TenMB
    /\ ~photoData.coordinates.present
    /\ \E row \in BagToSet(security_rounds) : row.gps_coordinates.present

-----------------------------------------------------------------------------
(* The stored round and the form: claim C21 *)

\* C21: the round an accepted call stores carries the guard name, the
\* employee code and the four corners exactly as the form held them, and the
\* location made of the form's state and site name; the sanitizer changes
\* none of them; the row read back is that row.
Location(form) == form.state \o <<" ", "-", " ">> \o form.siteName

C21_StoredValuesRoundTrip ==
    [][pending' # pending => \A s \in BagToSet(pending) :
          \A uid \in {NULL, Guard}, reached \in BOOLEAN :
              (insertReplies(s, uid, reached) /\ done'.result = "success") =>
                  \E row \in BagToSet(security_rounds') :
                      /\ security_rounds' = security_rounds (+) One(row)
                      /\ selected'.rows = {row}
                      /\ row.guard_name = s.form.guardName
                      /\ row.employee_id = s.form.employeeCode
                      /\ \A k \in 1..4 :
                            row[<<"qr_code_corner_1", "qr_code_corner_2",
                                  "qr_code_corner_3", "qr_code_corner_4">>[k]]
                                = s.form[CornerField[k]]
                      /\ row.location = Location(s.form)
                      /\ \A v \in {s.form.guardName, s.form.employeeCode,
                                   s.form.state, s.form.siteName} \cup
                                  {s.form[CornerField[k]] : k \in 1..4} :
                            Clean(v) = v]_vars

\* The round of the form whose guard name was entered as
\* guard "O'Brien" <b> is stored, and read back, as guard OBrien b.
C21_Witness ==
    /\ done.result = "success"
    /\ \E row \in BagToSet(security_rounds) :
          /\ selected.rows = {row}
          /\ row.guard_name = <<"g", "u", "a", "r", "d", " ", "O", "B", "r", "i",
                                "e", "n", " ", "b">>
          /\ row.location = <<"K", "A", " ", "-", " ", "H", " ", "Q">>
          /\ row.employee_id = <<"E", "7">>
          /\ row.qr_code_corner_1 = <<"A", "1">>

-----------------------------------------------------------------------------
(* Calls in flight: claim C22 *)

\* C22: at most one call of handleSubmit is awaiting a reply at any time, and
\* no round is stored twice.
C22_OneSubmissionInFlight ==
    /\ BagSize(pending, BagToSet(pending)) <= 1
    /\ \A row \in BagToSet(security_rounds) : CopiesIn(row, security_rounds) = 1

-----------------------------------------------------------------------------
(* The retention sweep: cleanup_old_security_rounds, run by pg_cron *)

\* INTERVAL '7 days'.
RetentionDays == 7

\* The last day of the clock, and the lines of the log that are kept.
MaxDay == 9
MaxLog == 2

\* A round with its created_at.
DatedRound(u, l, by, at) ==
    [user_id |-> u, location |-> l, by |-> by, created_at |-> at]

\* RAISE LOG.
RaiseLog(log, line) ==
    LET all == Append(log, line)
    IN  IF Len(all) <= MaxLog THEN all ELSE SubSeq(all, Len(all) - MaxLog + 1, Len(all))

\* A day passes.
Tick ==
    /\ now < MaxDay
    /\ now' = now + 1
    /\ UNCHANGED <<server_log, dbVars, uiVars, scanVars, cameraVars, txnVars, limiterVars>>

\* from('security_rounds').insert(row): created_at is the request's, or, when
\* the request names none, DEFAULT now().
InsertRoundAt(uid, userId, location, named, at) ==
    /\ BagSize(security_rounds, BagToSet(security_rounds)) < MaxRounds
    /\ LET new == DatedRound(userId, location, uid, IF named THEN at ELSE now)
           ok == RoundsWithCheck("INSERT", uid, new) /\ security_rounds_constraints(new)
       IN  /\ security_rounds' = IF ok THEN security_rounds (+) One(new)
                                 ELSE security_rounds
           /\ last' = Outcome("insert_round", uid, userId, 0, ok, IF ok THEN 1 ELSE 0)
    /\ selected' = NoSelect
    /\ UNCHANGED <<auth_users, user_roles, role_audit_log, uiVars>>
    /\ UNCHANGED extVars

\* cleanup_old_security_rounds deleting the rounds of exactly seven days too.
cleanup_old_security_rounds_inclusive(fails) ==
    LET old == {r \in BagToSet(security_rounds) : r.created_at <= now - RetentionDays}
        deleted == BagSize(security_rounds, old)
    IN  /\ IF fails
           THEN /\ security_rounds' = security_rounds
                /\ server_log' = RaiseLog(server_log, "Error in cleanup_old_security_rounds")
           ELSE /\ security_rounds' = RemoveRows(security_rounds, old)
                /\ server_log' = RaiseLog(server_log,
                                          "Cleaned up security_rounds older than 7 days")
        /\ last' = [op |-> "cleanup", caller |-> "cron", self |-> FALSE,
                    matched |-> deleted, ok |-> TRUE,
                    rows |-> IF fails THEN 0 ELSE deleted]
        /\ selected' = NoSelect
        /\ UNCHANGED <<auth_users, user_roles, role_audit_log, now, uiVars>>
        /\ UNCHANGED <<scanVars, cameraVars, txnVars, limiterVars>>

\* The job 'cleanup-old-security-rounds' runs
\* schedule_cleanup_old_security_rounds(), which runs
\* cleanup_old_security_rounds().  The function is SECURITY DEFINER: no row
\* policy applies.  An error inside its block undoes the DELETE and is
\* caught by WHEN OTHERS, which logs it.
cleanup_old_security_rounds(fails) ==
    LET old == {r \in BagToSet(security_rounds) : r.created_at < now - RetentionDays}
        deleted == BagSize(security_rounds, old)
    IN  /\ IF fails
           THEN /\ security_rounds' = security_rounds
                /\ server_log' = RaiseLog(server_log, "Error in cleanup_old_security_rounds")
           ELSE /\ security_rounds' = RemoveRows(security_rounds, old)
                /\ server_log' = RaiseLog(server_log,
                                          "Cleaned up security_rounds older than 7 days")
        /\ last' = [op |-> "cleanup", caller |-> "cron", self |-> FALSE,
                    matched |-> deleted, ok |-> TRUE,
                    rows |-> IF fails THEN 0 ELSE deleted]
        /\ selected' = NoSelect
        /\ UNCHANGED <<auth_users, user_roles, role_audit_log, now, uiVars>>
        /\ UNCHANGED <<scanVars, cameraVars, txnVars, limiterVars>>

InitSweep ==
    /\ auth_users = {SeedAdmin1, SeedManager} \cup NewUsers
    /\ user_roles = SeedRoles
    /\ role_audit_log = <<>>
    /\ security_rounds = EmptyBag
    /\ selected = NoSelect
    /\ last = [op |-> "none", caller |-> "anon", self |-> FALSE, matched |-> 0,
               ok |-> TRUE, rows |-> 0]
    /\ InitUi
    /\ InitExt

NextSweep ==
    \/ Tick
    \/ \E uid \in NewUsers \cup {NULL}, u \in NewUsers, at \in 0..MaxDay :
          InsertRoundAt(uid, u, "Site A", TRUE, at)
    \/ \E uid \in NewUsers \cup {NULL}, u \in NewUsers :
          InsertRoundAt(uid, u, "Site A", FALSE, 0)
    \/ \E fails \in BOOLEAN : cleanup_old_security_rounds(fails)

SpecSweep == InitSweep /\ [][NextSweep]_vars

\* C23: a run of the sweep that meets no error deletes every round older than
\* seven days and no other; a run that meets an error deletes nothing, logs
\* the error and ends without one; a sweep after it runs as any other.
AgeInDays(row) == now - row.created_at

C23_RetentionSweep ==
    [][\A fails \in BOOLEAN :
          cleanup_old_security_rounds(fails) =>
              /\ last'.ok
              /\ IF fails
                 THEN /\ security_rounds' = security_rounds
                      /\ server_log'[Len(server_log')]
                             = "Error in cleanup_old_security_rounds"
                 ELSE /\ \A row \in BagToSet(security_rounds) :
                            CopiesIn(row, security_rounds') =
                                IF AgeInDays(row) > 7 THEN 0
                                ELSE CopiesIn(row, security_rounds)
                      /\ BagToSet(security_rounds') \subseteq BagToSet(security_rounds)]_vars

\* On day 8, after a sweep that failed, a sweep has deleted a round of day 0
\* and left the round of day 1, which is seven days old.
C23_Witness ==
    /\ now = 8
    /\ server_log = <<"Error in cleanup_old_security_rounds",
                      "Cleaned up security_rounds older than 7 days">>
    /\ last.op = "cleanup" /\ last.rows = 1
    /\ \E row \in BagToSet(security_rounds) : row.created_at = 1

-----------------------------------------------------------------------------
(* Corners scanned in any order: claim C24 *)

InitOrder ==
    /\ auth_users = {SeedAdmin1, SeedAdmin2, SeedManager}
    /\ user_roles = SeedRoles
    /\ role_audit_log = <<>>
    /\ security_rounds = EmptyBag
    /\ selected = NoSelect
    /\ last = [op |-> "none", caller |-> "anon", self |-> FALSE, matched |-> 0,
               ok |-> TRUE, rows |-> 0]
    /\ InitUi
    /\ InitExt

NextOrder ==
    \/ OpenQRScanner
    \/ CloseQRScanner
    \/ \E corner \in 1..4 : SelectCorner(corner)
    \/ \E result \in QRPayloads : handleQRScanRecorded(result)

SpecOrder == InitOrder /\ [][NextOrder]_vars

\* C24: each corner holds the cleaned payload of the last scan accepted while
\* it was the active corner, whatever the order of the scans; the form, and
\* so what handleSubmit finds in it, is that of those last payloads alone.
FormOfScans(form, scans) ==
    [f \in DOMAIN form |->
        IF \E k \in 1..4 : f = CornerField[k]
        THEN LET k == CHOOSE j \in 1..4 : f = CornerField[j]
             IN  IF scans[k].present THEN Clean(scans[k].data) ELSE <<>>
        ELSE form[f]]

C24_ScanOrderIrrelevant ==
    /\ \A k \in 1..4 :
          formData[CornerField[k]] =
              IF scanned[k].present THEN Clean(scanned[k].data) ELSE <<>>
    /\ validationErrors(formData, photoData)
           = validationErrors(FormOfScans(InitForm, scanned), photoData)

\* Corner 4 was scanned before corner 1, corner 1 last, and corners 2 and 3
\* not at all.
C24_Witness ==
    /\ scanned[4] = [present |-> TRUE, data |-> <<" ", "<", "A", "1", ">", " ">>]
    /\ scanned[1] = [present |-> TRUE, data |-> <<"B", "2">>]
    /\ ~scanned[2].present /\ ~scanned[3].present
    /\ toast.title = "QR Code Scanned" /\ toast.corner = 1
    /\ formData.qrCodeCorner4 = <<"A", "1">>
    /\ formData.qrCodeCorner1 = <<"B", "2">>

-----------------------------------------------------------------------------
(* Closing a modal: claim C25 *)

InitCancel ==
    /\ auth_users = {SeedAdmin1, SeedAdmin2, SeedManager}
    /\ user_roles = SeedRoles
    /\ role_audit_log = <<>>
    /\ security_rounds = EmptyBag
    /\ selected = NoSelect
    /\ last = [op |-> "none", caller |-> "anon", self |-> FALSE, matched |-> 0,
               ok |-> TRUE, rows |-> 0]
    /\ \E taken \in BOOLEAN :
          /\ formData = IF taken THEN CapturePhoto(TypedForm, SomeFile, SomeCoordinates)
                        ELSE TypedForm
          /\ photoData = IF taken
                         THEN [present |-> TRUE, file |-> SomeFile,
                               coordinates |-> SomeCoordinates]
                         ELSE NoPhoto
    /\ currentCorner = 1
    /\ showQRScanner = FALSE
    /\ showCamera = FALSE
    /\ toast = NoToast
    /\ pending = EmptyBag
    /\ done = NoOutcome
    /\ InitExt

NextCancel ==
    \/ OpenQRScanner
    \/ CloseQRScanner
    \/ \E result \in QRPayloads : handleQRScan(result)
    \/ OpenCamera
    \/ CloseCamera
    \/ \E data \in PhotoInputs : capturePhoto(data)
    \/ \E encoded \in BOOLEAN : toBlobCallback(encoded)

SpecCancel == InitCancel /\ [][NextCancel]_vars

\* C25: a close changes no corner, photo, coordinates or active corner, and
\* nothing changes them while no modal is open: what was held when a modal
\* was opened is held after it was closed without a capture, whatever was
\* queued at the close.
C25_CloseCancelsCapture ==
    [][/\ CloseCamera => CaptureUnchanged
       /\ CloseQRScanner => CaptureUnchanged
       /\ (~showCamera /\ ~showQRScanner) => CaptureUnchanged]_vars

-----------------------------------------------------------------------------
(* Two admins calling admin_change_user_role at once *)

\* The audit entries the calls may leave.
MaxRaceAudit == 2

Admins == {SeedAdmin1, SeedAdmin2}

NoCall == [pc |-> "idle", target |-> NULL, role |-> NULL, ret |-> FALSE,
           locked |-> FALSE]

\* rpc('admin_change_user_role') is sent by admin uid.
BeginChangeRole(uid, target_user_id, new_role) ==
    /\ txns[uid].pc \in {"idle", "returned"}
    /\ txns' = [txns EXCEPT ![uid] = [pc |-> "begun", target |-> target_user_id,
                                      role |-> new_role, ret |-> FALSE,
                                      locked |-> FALSE]]
    /\ UNCHANGED dbVars
    /\ UNCHANGED uiVars
    /\ UNCHANGED <<sweepVars, scanVars, cameraVars, limiterVars>>

\* The function body runs in the call's transaction.  Its UPDATE locks the
\* rows it writes until the transaction ends: the UPDATE of another call on
\* rows that are locked waits for that, and then writes the rows as they were
\* left.
RunChangeRole(uid) ==
    /\ txns[uid].pc = "begun"
    /\ ~\E other \in Admins \ {uid} :
          /\ txns[other].pc = "ran"
          /\ txns[other].locked
          /\ txns[other].target = txns[uid].target
    /\ LET s == admin_change_user_role(user_roles, role_audit_log, uid,
                                       txns[uid].target, txns[uid].role)
       IN  /\ Len(s.audit) <= MaxRaceAudit
           /\ user_roles' = s.roles
           /\ role_audit_log' = s.audit
           /\ txns' = [txns EXCEPT ![uid].pc = "ran", ![uid].ret = s.ret,
                                   ![uid].locked = (s.rows > 0)]
    /\ UNCHANGED <<auth_users, security_rounds, selected, last, uiVars>>
    /\ UNCHANGED <<sweepVars, scanVars, cameraVars, limiterVars>>

\* The transaction ends and the call returns.
ReturnChangeRole(uid) ==
    /\ txns[uid].pc = "ran"
    /\ txns' = [txns EXCEPT ![uid].pc = "returned", ![uid].locked = FALSE]
    /\ last' = Outcome("rpc", uid, txns[uid].target,
                       CountOf(user_roles, txns[uid].target), txns[uid].ret,
                       IF txns[uid].ret
                       THEN CountOf(user_roles, txns[uid].target) ELSE 0)
    /\ UNCHANGED <<auth_users, user_roles, role_audit_log, security_rounds, selected,
                   uiVars>>
    /\ UNCHANGED <<sweepVars, scanVars, cameraVars, limiterVars>>

InitRace ==
    /\ auth_users = Users
    /\ \E g \in SUBSET {RoleRow(n, "security_guard", NullAccess) : n \in NewUsers} :
          user_roles = SeedRoles (+) SetToBag(g)
    /\ role_audit_log = <<>>
    /\ security_rounds = EmptyBag
    /\ selected = NoSelect
    /\ last = [op |-> "none", caller |-> "anon", self |-> FALSE, matched |-> 0,
               ok |-> TRUE, rows |-> 0]
    /\ InitUi
    /\ now = 0
    /\ server_log = <<>>
    /\ scanned = [corner \in 1..4 |-> NoScan]
    /\ blob = NoBlob
    /\ txns = [a \in Admins |-> NoCall]
    /\ limiter = NULL
    /\ attempts = <<>>
    /\ clock = 0
    /\ returned = <<>>
    /\ windows = <<>>

NextRace ==
    \/ \E uid \in Admins, target \in NewUsers \cup {SeedManager}, new_role \in user_role :
          BeginChangeRole(uid, target, new_role)
    \/ \E uid \in Admins : RunChangeRole(uid)
    \/ \E uid \in Admins : ReturnChangeRole(uid)

SpecRace == InitRace /\ [][NextRace]_vars

\* C26: when the calls of the two admins on one identity C have both
\* returned, both returned TRUE, C has one role row, its role is that of the
\* write that came last, and the audit log has an entry of each admin for C
\* with the role that admin asked for.
C26_LastWriteWins ==
    \A C \in NewUsers \cup {SeedManager} :
        (\A a \in Admins : txns[a].pc = "returned" /\ txns[a].target = C) =>
            /\ \A a \in Admins : txns[a].ret
            /\ CountOf(user_roles, C) = 1
            /\ \A row \in RowsOf(user_roles, C) :
                  /\ row.role \in {txns[a].role : a \in Admins}
                  /\ Len(role_audit_log) > 0
                  /\ row.role = role_audit_log[Len(role_audit_log)].new_role
            /\ \A a \in Admins :
                  \E i \in DOMAIN role_audit_log :
                      /\ role_audit_log[i].performed_by = a
                      /\ role_audit_log[i].target_user = C
                      /\ role_audit_log[i].new_role = txns[a].role

----------------------------------------------------------------------------
(* Identity creation with the server log: claim C27 *)

\* INSERT INTO auth.users with what its triggers write to the server log.
CreateIdentityLogged(uid, id) ==
    /\ CreateIdentitySteps(uid, id)
    /\ LET t == AfterInsertTriggers(user_roles, role_audit_log, uid, id)
           line == "Error in assign_default_role"
       IN  server_log' = IF t.lines = 0 THEN server_log
                         ELSE IF t.lines = 1 THEN RaiseLog(server_log, line)
                         ELSE RaiseLog(RaiseLog(server_log, line), line)
    /\ UNCHANGED <<now, scanVars, cameraVars, txnVars, limiterVars>>

NextSignup ==
    \/ \E uid \in Callers, id \in Users : CreateIdentityLogged(uid, id)
    \/ \E uid \in Callers, t \in Users, r \in user_role : AdminChangeUserRole(uid, t, r)
    \/ \E uid \in Callers, t \in Users, p \in RolePatches : UpdateUserRoles(uid, t, p)
    \/ \E uid \in Callers, t \in Users, r \in user_role : InsertUserRole(uid, t, r)
    \/ \E uid \in Callers, t \in Users : DeleteUserRoles(uid, t)

SpecSignup == InitAuth /\ [][NextSignup]_vars

\* C27: every INSERT INTO auth.users ends without an error for its caller
\* and with the new identity created; when its role assignment failed (the
\* identity has no role row afterwards), user_roles and role_audit_log are
\* as before and the last line of the server log is the assignment's error;
\* when it did not fail, nothing is logged.
C27_AssignmentNeverBlocksCreation ==
    [][(last'.op = "signup" /\ (last' # last \/ auth_users' # auth_users)) =>
          /\ last'.ok
          /\ \E id \in Users \ auth_users :
                /\ auth_users' = auth_users \cup {id}
                /\ IF CountOf(user_roles', id) = 0
                   THEN /\ user_roles' = user_roles
                        /\ role_audit_log' = role_audit_log
                        /\ Len(server_log') > 0
                        /\ server_log'[Len(server_log')] = "Error in assign_default_role"
                   ELSE server_log' = server_log]_vars

\* An identity has been created although its role assignment failed.
C27_Witness ==
    /\ last.op = "signup" /\ last.ok /\ last.rows = 0
    /\ \E id \in NewUsers : id \in auth_users /\ CountOf(user_roles, id) = 0
    /\ Len(server_log) = 2

----------------------------------------------------------------------------
(* Accepted payloads and the four-corner requirement: claim C28 *)

\* C28: whenever handleQRScan accepts a payload (validateQRCode passes, the
\* "QR Code Scanned" notice is shown for the active corner and the scanner
\* closes), the value the corner holds afterwards is not empty.
C28_AcceptedPayloadCounts ==
    [][\A result \in QRPayloads :
          (/\ handleQRScan(result)
           /\ validateQRCode(result)
           /\ toast' = Toast("QR Code Scanned", currentCorner)
           /\ ~showQRScanner') =>
              formData'[cornerKey(currentCorner)] # <<>>]_vars

----------------------------------------------------------------------------
(* Reported success of a role change: claim C29 *)

\* C29: whenever admin_change_user_role(target, newRole), called by an admin
\* on an existing identity, returns TRUE, or the update of AdminManagement's
\* updateUserRole and createUser ends without an error, the target has a
\* role row with role newRole afterwards.
C29_ReportedSuccessTookEffect ==
    [][\A uid \in auth_users, target \in auth_users, newRole \in user_role :
          (/\ CallerRole(uid) = "admin"
           /\ \/ AdminChangeUserRole(uid, target, newRole)
              \/ UpdateUserRoles(uid, target, [col |-> "role", val |-> newRole])
           /\ last'.ok) =>
              \E row \in RowsOf(user_roles', target) : row.role = newRole]_vars

----------------------------------------------------------------------------
(* Rate limiters: claim C30 *)

\* The limiters lib/security.ts exports, and the maxAttempts and windowMs
\* each was created with.
Limiters == {"formSubmissionLimiter", "qrScanLimiter"}

LimiterArgs(name) ==
    IF name = "formSubmissionLimiter" THEN [maxAttempts |-> 5, windowMs |-> 60000]
    ELSE [maxAttempts |-> 10, windowMs |-> 60000]

\* The identifiers the limiter is asked about.
Identifiers == {"u1", "u2"}

\* attempts.get(identifier) of an identifier the map does not hold.
NoRecord == [present |-> FALSE, count |-> 0, resetTime |-> 0]

\* The clock is read every half window, MaxTicks times at most.
MaxTicks == 5

\* isAllowed that refuses one call too late.
isAllowed_inclusive(args, map, identifier, t) ==
    LET record == map[identifier]
    IN  IF ~record.present \/ t > record.resetTime
        THEN [ret |-> TRUE,
              attempts |-> [map EXCEPT ![identifier] =
                               [present |-> TRUE, count |-> 1,
                                resetTime |-> t + args.windowMs]]]
        ELSE IF record.count > args.maxAttempts
        THEN [ret |-> FALSE, attempts |-> map]
        ELSE [ret |-> TRUE,
              attempts |-> [map EXCEPT ![identifier].count = @ + 1]]

\* isAllowed(identifier) at Date.now() = t: what it returns and the map it
\* leaves.
isAllowed(args, map, identifier, t) ==
    LET record == map[identifier]
    IN  IF ~record.present \/ t > record.resetTime
        THEN [ret |-> TRUE,
              attempts |-> [map EXCEPT ![identifier] =
                               [present |-> TRUE, count |-> 1,
                                resetTime |-> t + args.windowMs]]]
        ELSE IF record.count >= args.maxAttempts
        THEN [ret |-> FALSE, attempts |-> map]
        ELSE [ret |-> TRUE,
              attempts |-> [map EXCEPT ![identifier].count = @ + 1]]

\* getRemainingAttempts(identifier) at Date.now() = t.
getRemainingAttempts(args, map, identifier, t) ==
    LET record == map[identifier]
    IN  IF ~record.present \/ t > record.resetTime THEN args.maxAttempts
        ELSE IF args.maxAttempts - record.count > 0
        THEN args.maxAttempts - record.count
        ELSE 0

NoWindow == [open |-> FALSE, start |-> 0, allowed |-> 0]

\* A call of isAllowed.  The history keeps, per identifier, the time of the
\* first allowed call of its window and the allowed calls made in it; a
\* window is over once more than windowMs has passed since its start.
CallIsAllowed(identifier) ==
    /\ LET args == LimiterArgs(limiter)
           r == isAllowed(args, attempts, identifier, clock)
           w == windows[identifier]
       IN  /\ attempts' = r.attempts
           /\ returned' = [op |-> "isAllowed", identifier |-> identifier,
                           allowed |-> r.ret, remaining |-> 0]
           /\ windows' =
                 IF ~r.ret THEN windows
                 ELSE IF ~w.open \/ clock > w.start + args.windowMs
                 THEN [windows EXCEPT ![identifier] =
                          [open |-> TRUE, start |-> clock, allowed |-> 1]]
                 ELSE [windows EXCEPT ![identifier].allowed = @ + 1]
    /\ UNCHANGED <<limiter, clock>>
    /\ UNCHANGED <<dbVars, uiVars, sweepVars, scanVars, cameraVars, txnVars>>

\* A call of getRemainingAttempts.
CallGetRemainingAttempts(identifier) ==
    /\ returned' = [op |-> "getRemainingAttempts", identifier |-> identifier,
                    allowed |-> FALSE,
                    remaining |-> getRemainingAttempts(LimiterArgs(limiter), attempts,
                                                       identifier, clock)]
    /\ UNCHANGED <<limiter, attempts, clock, windows>>
    /\ UNCHANGED <<dbVars, uiVars, sweepVars, scanVars, cameraVars, txnVars>>

\* Half a window passes.
AdvanceClock ==
    /\ clock < MaxTicks * (LimiterArgs(limiter).windowMs \div 2)
    /\ clock' = clock + LimiterArgs(limiter).windowMs \div 2
    /\ UNCHANGED <<limiter, attempts, returned, windows>>
    /\ UNCHANGED <<dbVars, uiVars, sweepVars, scanVars, cameraVars, txnVars>>

InitLimiter ==
    /\ auth_users = {SeedAdmin1, SeedAdmin2, SeedManager}
    /\ user_roles = SeedRoles
    /\ role_audit_log = <<>>
    /\ security_rounds = EmptyBag
    /\ selected = NoSelect
    /\ last = [op |-> "none", caller |-> "anon", self |-> FALSE, matched |-> 0,
               ok |-> TRUE, rows |-> 0]
    /\ InitUi
    /\ now = 0
    /\ server_log = <<>>
    /\ scanned = [corner \in 1..4 |-> NoScan]
    /\ blob = NoBlob
    /\ txns = <<>>
    /\ limiter \in Limiters
    /\ attempts = [identifier \in Identifiers |-> NoRecord]
    /\ clock = 0
    /\ returned = [op |-> "none", identifier |-> "u1", allowed |-> FALSE,
                   remaining |-> 0]
    /\ windows = [identifier \in Identifiers |-> NoWindow]

NextLimiter ==
    \/ \E identifier \in Identifiers : CallIsAllowed(identifier)
    \/ \E identifier \in Identifiers : CallGetRemainingAttempts(identifier)
    \/ AdvanceClock

SpecLimiter == InitLimiter /\ [][NextLimiter]_vars

\* The allowed calls of an identifier's current window: none when it has no
\* window or more than windowMs has passed since the window's first call.
AllowedInWindow(identifier) ==
    LET w == windows[identifier]
    IN  IF w.open /\ clock <= w.start + LimiterArgs(limiter).windowMs
        THEN w.allowed ELSE 0

\* C30: within one window isAllowed returns true at most maxAttempts times
\* and false for every further call; once the window is over (or there was
\* none) the next call is allowed; getRemainingAttempts returns maxAttempts
\* minus the allowed calls of the current window and never less than 0; a
\* call for one identifier leaves the records of the others as they were.
C30_RateLimiterBound ==
    [][\A identifier \in Identifiers :
          LET maxAttempts == LimiterArgs(limiter).maxAttempts
              before == AllowedInWindow(identifier)
          IN  /\ CallIsAllowed(identifier) =>
                    /\ before >= maxAttempts => ~returned'.allowed
                    /\ before = 0 => returned'.allowed
                    /\ windows'[identifier].allowed <= maxAttempts
                    /\ \A other \in Identifiers \ {identifier} :
                          attempts'[other] = attempts[other]
              /\ CallGetRemainingAttempts(identifier) =>
                    /\ returned'.remaining = maxAttempts - before
                    /\ returned'.remaining >= 0
                    /\ attempts' = attempts]_vars

\* In its second window u1 has used every attempt and is refused, while u2
\* has made one call.
C30_Witness ==
    /\ returned.op = "isAllowed" /\ returned.identifier = "u1" /\ ~returned.allowed
    /\ windows["u1"].start > 0
    /\ windows["u1"].allowed = LimiterArgs(limiter).maxAttempts
    /\ windows["u2"].allowed = 1

====
